---- MODULE Spec2Model ----
(***************************************************************************)
(* Model of pkgdb's metrics and chart-geometry core:                       *)
(*   utils.calculate_growth, utils.make_sparkline, badges._format_count,   *)
(*   reports.make_svg_pie_chart.                                           *)
(*                                                                         *)
(* Each function is driven by its own specification: Init draws the        *)
(* arguments of one call from a bounded set, the action runs the function  *)
(* body and stores what it returns.                                        *)
(*                                                                         *)
(* Python values are represented as follows.                               *)
(*   Optional[int] / Optional[float] : <<>> is None, <<x>> is the value x  *)
(*   float                           : an exact fraction [num, den] in     *)
(*                                     lowest terms with den > 0           *)
(*   str                             : a sequence of one-character strings *)
(*   list[tuple[str, int]]           : a sequence of records [name, value] *)
(***************************************************************************)
EXTENDS Integers, Sequences, FiniteSets, TLC

VARIABLES pc, args, ret

vars == <<pc, args, ret>>

None == <<>>

Some(x) == <<x>>

NoReturn == [kind |-> "pending"]

(***************************************************************************)
(* Arithmetic helpers                                                      *)
(***************************************************************************)
Abs(x) == IF x < 0 THEN -x ELSE x

Sign(x) == IF x < 0 THEN -1 ELSE IF x > 0 THEN 1 ELSE 0

RECURSIVE GCD(_, _)
GCD(a, b) == IF b = 0 THEN a ELSE GCD(b, a % b)

\* a Python float, kept as the exact fraction n/d (d # 0)
Rat(n, d) ==
    LET g == GCD(Abs(n), Abs(d))
        s == IF d < 0 THEN -1 ELSE 1
    IN  [num |-> s * (n \div g), den |-> s * (d \div g)]

RatInt(n) == [num |-> n, den |-> 1]

RatAdd(a, b) == Rat(a.num * b.den + b.num * a.den, a.den * b.den)

RatSub(a, b) == Rat(a.num * b.den - b.num * a.den, a.den * b.den)

RatMul(a, b) == Rat(a.num * b.num, a.den * b.den)

RatDiv(a, b) == Rat(a.num * b.den, a.den * b.num)

RatLt(a, b) == a.num * b.den < b.num * a.den

RECURSIVE Pow(_, _)
Pow(b, e) == IF e = 0 THEN 1 ELSE b * Pow(b, e - 1)

RECURSIVE SumSeq(_)
SumSeq(s) == IF s = <<>> THEN 0 ELSE s[1] + SumSeq(Tail(s))

RECURSIVE MinSeq(_)
MinSeq(s) ==
    IF Len(s) = 1 THEN s[1]
    ELSE LET m == MinSeq(Tail(s)) IN IF s[1] < m THEN s[1] ELSE m

RECURSIVE MaxSeq(_)
MaxSeq(s) ==
    IF Len(s) = 1 THEN s[1]
    ELSE LET m == MaxSeq(Tail(s)) IN IF s[1] > m THEN s[1] ELSE m

\* n copies of x: [x] * n
Repeat(x, n) == [i \in 1..n |-> x]

\* all sequences over S of length 0..n
SeqsUpTo(S, n) == UNION {[1..k -> S] : k \in 0..n}

(***************************************************************************)
(* utils.calculate_growth                                                  *)
(***************************************************************************)
calculate_growth_flipped(current, previous) ==
    IF previous = None \/ previous = Some(0) THEN None
    ELSE IF current = None THEN None
    ELSE Some(RatMul(RatDiv(RatInt(previous[1] - current[1]),
                            RatInt(previous[1])), RatInt(100)))

calculate_growth(current, previous) ==
    IF previous = None \/ previous = Some(0) THEN None
    ELSE IF current = None THEN None
    ELSE Some(RatMul(RatDiv(RatInt(current[1] - previous[1]),
                            RatInt(previous[1])), RatInt(100)))

MaxGrowthSmall == 3

MaxGrowthMult == 9

GrowthInts ==
    (-MaxGrowthSmall..MaxGrowthSmall)
        \cup {k * 25 : k \in -MaxGrowthMult..MaxGrowthMult}

GrowthArgs == {None} \cup {Some(n) : n \in GrowthInts}

InitGrowth ==
    /\ pc = "call"
    /\ args \in [current : GrowthArgs, previous : GrowthArgs]
    /\ ret = NoReturn

CallGrowth ==
    /\ pc = "call"
    /\ ret' = calculate_growth(args.current, args.previous)
    /\ pc' = "done"
    /\ UNCHANGED args

NextGrowth == CallGrowth

SpecGrowth == InitGrowth /\ [][NextGrowth]_vars

\* C1: calculate_growth returns None whenever previous is None or 0 or
\* current is None; for every other pair of integers the result r is the
\* number (current - previous) / previous * 100, with its sign, so that
\* growth(150,100) = 50, growth(50,100) = -50 and growth(225,100) = 125.
GrowthContract ==
    pc = "done" =>
        LET c == args.current
            p == args.previous
        IN  IF p = None \/ p = Some(0) \/ c = None
            THEN ret = None
            ELSE /\ ret # None
                 /\ ret[1].den > 0
                 /\ ret[1].num * p[1] = (c[1] - p[1]) * 100 * ret[1].den
                 /\ Sign(ret[1].num) = Sign(c[1] - p[1]) * Sign(p[1])
                 /\ (c = Some(150) /\ p = Some(100)) => ret = Some(RatInt(50))
                 /\ (c = Some(50) /\ p = Some(100)) => ret = Some(RatInt(-50))
                 /\ (c = Some(225) /\ p = Some(100)) => ret = Some(RatInt(125))

GrowthWitness ==
    /\ pc = "done"
    /\ args.current = Some(50)
    /\ args.previous = Some(100)
    /\ ret = Some(RatInt(-50))

(***************************************************************************)
(* badges._format_count                                                    *)
(***************************************************************************)
DigitChars == <<"0", "1", "2", "3", "4", "5", "6", "7", "8", "9">>

\* str(n) for an int n >= 0
RECURSIVE IntToStr(_)
IntToStr(n) ==
    IF n < 10 THEN <<DigitChars[n + 1]>>
    ELSE Append(IntToStr(n \div 10), DigitChars[(n % 10) + 1])

\* (a * b) % m without leaving the 32-bit range (0 <= a, b < m)
RECURSIVE MulMod(_, _, _)
MulMod(a, b, m) ==
    IF b = 0 THEN 0
    ELSE (2 * MulMod(a, b \div 2, m) + (b % 2) * a) % m

\* (2^j) % m
RECURSIVE PowMod2(_, _)
PowMod2(j, m) == IF j = 0 THEN 1 % m ELSE (2 * PowMod2(j - 1, m)) % m

\* floor(log2(n / d)) for n >= d > 0
RECURSIVE Log2Floor(_, _)
Log2Floor(n, d) == IF n \div 2 < d THEN 0 ELSE 1 + Log2Floor(n \div 2, d)

\* The true division count / 10^k yields the IEEE double nearest to the
\* quotient (53-bit significand, ties to even).  DoubleError is the sign of
\* double(count / 10^k) - count / 10^k: the significand is
\* count * 2^(52 - e - k) / 5^k, whose fractional part decides the rounding
\* (5^k is odd, so the fraction is never exactly one half).
DoubleError(count, k) ==
    LET m == Pow(5, k)
        e == Log2Floor(count, Pow(10, k))
        r == MulMod(count % m, PowMod2(52 - e - k, m), m)
    IN  IF r = 0 THEN 0 ELSE IF 2 * r < m THEN -1 ELSE 1

\* Number of tenths printed by f"{count / 10**k:.1f}": the decimal value of
\* the double, correctly rounded to one place, ties to even.
RoundedTenths(count, k, err) ==
    LET unit == Pow(10, k - 1)
        t == count \div unit
        r == count % unit
    IN  IF 2 * r < unit THEN t
        ELSE IF 2 * r > unit THEN t + 1
        ELSE IF err < 0 THEN t
        ELSE IF err > 0 THEN t + 1
        ELSE IF t % 2 = 0 THEN t ELSE t + 1

\* f"{count / 10**k:.1f}"
FormatF1(count, k) ==
    LET t == RoundedTenths(count, k, DoubleError(count, k))
    IN  IntToStr(t \div 10) \o <<".", DigitChars[(t % 10) + 1]>>

format_count_strict(count) ==
    IF count > 1000000000 THEN FormatF1(count, 9) \o <<"B">>
    ELSE IF count > 1000000 THEN FormatF1(count, 6) \o <<"M">>
    ELSE IF count > 1000 THEN FormatF1(count, 3) \o <<"K">>
    ELSE IntToStr(count)

format_count(count) ==
    IF count >= 1000000000 THEN FormatF1(count, 9) \o <<"B">>
    ELSE IF count >= 1000000 THEN FormatF1(count, 6) \o <<"M">>
    ELSE IF count >= 1000 THEN FormatF1(count, 3) \o <<"K">>
    ELSE IntToStr(count)

MaxCountSmall == 2500

MaxMillionMult == 60

MaxBillionMult == 20

NearDelta == 60

CountInputs ==
    (0..MaxCountSmall)
        \cup {c * 50000 : c \in 1..MaxMillionMult}
        \cup {1000000000 + c * 50000000 : c \in 0..MaxBillionMult}
        \cup ((1000000 - NearDelta)..(1000000 + NearDelta))
        \cup ((1000000000 - NearDelta)..(1000000000 + NearDelta))
        \cup {1234567}

InitFormatCount ==
    /\ pc = "call"
    /\ args \in [count : CountInputs]
    /\ ret = NoReturn

CallFormatCount ==
    /\ pc = "call"
    /\ ret' = format_count(args.count)
    /\ pc' = "done"
    /\ UNCHANGED args

NextFormatCount == CallFormatCount

SpecFormatCount == InitFormatCount /\ [][NextFormatCount]_vars

\* Reading a printed count back -------------------------------------------
DigitValue(ch) == CHOOSE d \in 0..9 : DigitChars[d + 1] = ch

IsDigit(ch) == \E d \in 0..9 : DigitChars[d + 1] = ch

RECURSIVE ParseInt(_)
ParseInt(s) ==
    IF Len(s) = 1 THEN DigitValue(s[1])
    ELSE 10 * ParseInt(SubSeq(s, 1, Len(s) - 1)) + DigitValue(s[Len(s)])

\* s is the plain decimal numeral of a natural number
IsNumeral(s) ==
    /\ Len(s) >= 1
    /\ \A i \in 1..Len(s) : IsDigit(s[i])
    /\ Len(s) > 1 => s[1] # "0"

\* s is <numeral> "." <digit> <suffix>
IsScaled(s, suffix) ==
    /\ Len(s) >= 4
    /\ s[Len(s)] = suffix
    /\ IsDigit(s[Len(s) - 1])
    /\ s[Len(s) - 2] = "."
    /\ IsNumeral(SubSeq(s, 1, Len(s) - 3))

\* the number of tenths a scaled string shows
ShownTenths(s) ==
    10 * ParseInt(SubSeq(s, 1, Len(s) - 3)) + DigitValue(s[Len(s) - 1])

\* s shows count / 10^k to one decimal place: within half a tenth of it
ShowsScaled(s, suffix, count, k) ==
    /\ IsScaled(s, suffix)
    /\ Abs(ShownTenths(s) * Pow(10, k - 1) - count) * 2 <= Pow(10, k - 1)

\* C2: below 1000 the result is the plain decimal string of n; from 1e3 it
\* is n/1e3 to one decimal followed by K, from 1e6 n/1e6 followed by M, from
\* 1e9 n/1e9 followed by B; 0 -> "0", 999 -> "999", 1000 -> "1.0K",
\* 1234567 -> "1.2M".
FormatCountContract ==
    pc = "done" =>
        LET n == args.count
        IN  /\ n < 1000 => IsNumeral(ret) /\ ParseInt(ret) = n
            /\ (1000 <= n /\ n < 1000000) => ShowsScaled(ret, "K", n, 3)
            /\ (1000000 <= n /\ n < 1000000000) => ShowsScaled(ret, "M", n, 6)
            /\ n >= 1000000000 => ShowsScaled(ret, "B", n, 9)
            /\ n = 0 => ret = <<"0">>
            /\ n = 999 => ret = <<"9", "9", "9">>
            /\ n = 1000 => ret = <<"1", ".", "0", "K">>
            /\ n = 1234567 => ret = <<"1", ".", "2", "M">>

FormatCountWitness ==
    /\ pc = "done"
    /\ args.count = 1000000
    /\ ret = <<"1", ".", "0", "M">>

\* the scaled value of n lies exactly on a .x5 boundary
OnHalfBoundary(n) ==
    LET k == IF n >= 1000000000 THEN 9 ELSE IF n >= 1000000 THEN 6 ELSE 3
    IN  n >= 1000 /\ 2 * (n % Pow(10, k - 1)) = Pow(10, k - 1)

UpperNeighbour(n) ==
    LET k == IF n >= 1000000000 THEN 9 ELSE IF n >= 1000000 THEN 6 ELSE 3
    IN  (n \div Pow(10, k - 1)) + 1

\* C3: the one-decimal rounding is round-half-up: for every n >= 1000 whose
\* scaled value lies exactly on a .x5 boundary the printed decimal is the
\* upper neighbour (1250 -> "1.3K").
FormatCountRoundsHalfUp ==
    (pc = "done" /\ OnHalfBoundary(args.count)) =>
        ShownTenths(ret) = UpperNeighbour(args.count)

(***************************************************************************)
(* utils.make_sparkline                                                    *)
(***************************************************************************)
SPARKLINE_WIDTH == 7

SPARKLINE_CHARS == <<" ", "_", ".", ",", ":", "-", "=", "+", "*", "#">>

\* int(x) for a float x: truncation toward zero
RatTrunc(a) ==
    IF a.num >= 0 THEN a.num \div a.den ELSE -((-a.num) \div a.den)

\* data[:n]
FirstN(values, width) ==
    IF Len(values) > width THEN SubSeq(values, 1, width) ELSE values

LastNFromFront(values, width) ==
    IF Len(values) > width THEN SubSeq(values, 1, width) ELSE values

\* values[-width:]
LastN(values, width) ==
    IF Len(values) > width
    THEN SubSeq(values, Len(values) - width + 1, Len(values))
    ELSE values

\* the glyph of one value: SPARKLINE_CHARS[int((v - min) / (max - min) * 9)]
SparkGlyphCeil(v, min_val, max_val) ==
    LET x == RatMul(RatDiv(RatInt(v - min_val), RatInt(max_val - min_val)),
                    RatInt(Len(SPARKLINE_CHARS) - 1))
        idx == IF x.den = 1 THEN x.num ELSE RatTrunc(x) + 1
    IN  SPARKLINE_CHARS[idx + 1]

SparkGlyph(v, min_val, max_val) ==
    LET idx == RatTrunc(RatMul(RatDiv(RatInt(v - min_val),
                                      RatInt(max_val - min_val)),
                               RatInt(Len(SPARKLINE_CHARS) - 1)))
    IN  SPARKLINE_CHARS[idx + 1]

SparkMidIdxLow == (Len(SPARKLINE_CHARS) - 1) \div 2

SparkMidIdx == Len(SPARKLINE_CHARS) \div 2

make_sparkline(values, width) ==
    IF values = <<>> THEN Repeat(" ", width)
    ELSE LET tail == LastN(values, width)
             vals == IF Len(tail) < width
                     THEN Repeat(0, width - Len(tail)) \o tail
                     ELSE tail
             min_val == MinSeq(vals)
             max_val == MaxSeq(vals)
         IN  IF max_val = min_val
             THEN Repeat(SPARKLINE_CHARS[SparkMidIdx + 1], width)
             ELSE [i \in 1..width |-> SparkGlyph(vals[i], min_val, max_val)]

MaxSparkVal == 3

MaxSparkLen == 4

MaxSparkWidth == 4

SparkValues ==
    SeqsUpTo(0..MaxSparkVal, MaxSparkLen)
        \cup {<<1, 2, 3, 4, 5, 6, 7>>, <<5, 5, 5>>, <<100, 150, 225>>}

SparkWidths == (1..MaxSparkWidth) \cup {SPARKLINE_WIDTH}

InitSparkline ==
    /\ pc = "call"
    /\ args \in [values : SparkValues, width : SparkWidths]
    /\ ret = NoReturn

CallSparkline ==
    /\ pc = "call"
    /\ ret' = make_sparkline(args.values, args.width)
    /\ pc' = "done"
    /\ UNCHANGED args

NextSparkline == CallSparkline

SpecSparkline == InitSparkline /\ [][NextSparkline]_vars

\* Reading a sparkline ------------------------------------------------------
GlyphSet == {SPARKLINE_CHARS[i] : i \in 1..Len(SPARKLINE_CHARS)}

\* position (0..9) of a glyph in the ordered glyph set
GlyphIndex(ch) == CHOOSE i \in 0..9 : SPARKLINE_CHARS[i + 1] = ch

\* the window of a call: the last width values, left-padded with 0
Window(values, width) ==
    [i \in 1..width |->
        IF i + Len(values) - width >= 1
        THEN values[i + Len(values) - width] ELSE 0]

WellFormedSparkline ==
    /\ Len(ret) = args.width
    /\ \A i \in 1..Len(ret) : ret[i] \in GlyphSet

\* C4 as stated: for every sequence, the empty one included, the result has
\* exactly width characters of the glyph set and is built from the window
\* (the last width values, left-padded with 0): it is what the window
\* itself renders to.
SparklineBuiltFromWindow ==
    pc = "done" =>
        /\ WellFormedSparkline
        /\ ret = make_sparkline(Window(args.values, args.width), args.width)

\* C4 amended: the result always has exactly width characters of the glyph
\* set; a non-empty sequence renders as its window does, the empty sequence
\* renders as width copies of the lowest glyph (a blank).
SparklineShape ==
    pc = "done" =>
        /\ WellFormedSparkline
        /\ args.values # <<>> =>
              ret = make_sparkline(Window(args.values, args.width), args.width)
        /\ args.values = <<>> =>
              \A i \in 1..args.width : ret[i] = SPARKLINE_CHARS[1]

SparklineShapeWitness ==
    /\ pc = "done"
    /\ args.values = <<3, 0, 1, 2>>
    /\ args.width = 3
    /\ ret = <<" ", ":", "#">>

WindowIsFlat ==
    LET w == Window(args.values, args.width) IN MinSeq(w) = MaxSeq(w)

\* C5 as stated: whenever the window of a sequence of any length has
\* min = max, the result is the middle glyph (index 5) repeated width times.
FlatWindowGivesMiddleGlyph ==
    (pc = "done" /\ WindowIsFlat) =>
        /\ Len(ret) = args.width
        /\ \A i \in 1..Len(ret) : ret[i] = "-" /\ GlyphIndex(ret[i]) = 5

\* C5 amended: whenever the window of a non-empty sequence has min = max,
\* the result is the middle glyph (index 5) repeated width times.
FlatSeriesGivesMiddleGlyph ==
    (pc = "done" /\ args.values # <<>> /\ WindowIsFlat) =>
        /\ Len(ret) = args.width
        /\ \A i \in 1..Len(ret) : ret[i] = "-" /\ GlyphIndex(ret[i]) = 5

FlatSeriesWitness ==
    /\ pc = "done"
    /\ args.values = <<5, 5, 5>>
    /\ args.width = 3
    /\ ret = <<"-", "-", "-">>

\* C6: when the window has min < max, value v gets glyph index
\* floor((v - min) * 9 / (max - min)); the minimum gets the lowest glyph,
\* the maximum the highest, and larger values never get a lower glyph, so a
\* non-decreasing window gives a non-decreasing glyph sequence.
SparklineInterpolates ==
    LET w == Window(args.values, args.width)
        lo == MinSeq(w)
        hi == MaxSeq(w)
    IN  (pc = "done" /\ lo < hi) =>
            /\ Len(ret) = args.width
            /\ \A i \in 1..args.width :
                  /\ GlyphIndex(ret[i]) = ((w[i] - lo) * 9) \div (hi - lo)
                  /\ w[i] = lo => ret[i] = " "
                  /\ w[i] = hi => ret[i] = "#"
            /\ \A i, j \in 1..args.width :
                  w[i] <= w[j] => GlyphIndex(ret[i]) <= GlyphIndex(ret[j])

SparklineInterpolatesWitness ==
    /\ pc = "done"
    /\ args.values = <<1, 2, 3, 4, 5, 6, 7>>
    /\ args.width = 7
    /\ ret = <<" ", "_", ",", ":", "=", "+", "#">>

(***************************************************************************)
(* reports.make_svg_pie_chart                                              *)
(***************************************************************************)
PIE_CHART_MAX_ITEMS == 6

\* the values of a list of (name, value) pairs
Values(data) == [i \in 1..Len(data) |-> data[i].value]

\* data[n:]
DropN(data, n) ==
    IF Len(data) > n THEN SubSeq(data, n + 1, Len(data)) ELSE <<>>

\* "Limit to top items, group rest as Other"
PieBucketKeepAll(data) ==
    IF Len(data) > PIE_CHART_MAX_ITEMS
    THEN LET top_data == FirstN(data, PIE_CHART_MAX_ITEMS)
             other_total == SumSeq(Values(DropN(data, PIE_CHART_MAX_ITEMS)))
         IN  IF other_total > 0
             THEN Append(top_data, [name |-> "Other", value |-> other_total])
             ELSE top_data
    ELSE data

PieBucket(data) ==
    IF Len(data) > PIE_CHART_MAX_ITEMS
    THEN LET top_data == FirstN(data, PIE_CHART_MAX_ITEMS - 1)
             other_total ==
                 SumSeq(Values(DropN(data, PIE_CHART_MAX_ITEMS - 1)))
         IN  IF other_total > 0
             THEN Append(top_data, [name |-> "Other", value |-> other_total])
             ELSE top_data
    ELSE data

PieLargeArcInclusive(angle) == IF RatLt(angle, RatInt(180)) THEN 0 ELSE 1

\* large_arc = 1 if angle > 180 else 0
PieLargeArc(angle) == IF RatLt(RatInt(180), angle) THEN 1 ELSE 0

PieTotalOfFirst(data) == SumSeq(Values(FirstN(data, PIE_CHART_MAX_ITEMS)))

\* total = sum(v for _, v in data)
PieTotal(data) == SumSeq(Values(data))

\* One <path> of the chart.  The arc runs from direction start_dir to
\* direction end_dir (degrees, 0 = +x axis, y pointing down), i.e. from
\* (cx + r cos start_dir, cy + r sin start_dir) to the same at end_dir, drawn
\* with the given large-arc and sweep flags.
PieSlice(i, item, total, n, start_angle) ==
    LET pct == RatDiv(RatInt(item.value), RatInt(total))
        angle == RatMul(pct, RatInt(360))
        end_angle == RatAdd(start_angle, angle)
    IN  [index |-> i,
         name |-> item.name,
         value |-> item.value,
         pct |-> pct,
         angle |-> angle,
         start_angle |-> start_angle,
         end_angle |-> end_angle,
         start_dir |-> RatSub(start_angle, RatInt(90)),
         end_dir |-> RatSub(end_angle, RatInt(90)),
         large_arc |-> PieLargeArc(angle),
         sweep |-> 1,
         hue |-> ((i * 360) \div n) % 360,
         legend_y |-> 20 + i * 25]

\* the loop over enumerate(data), from 0-based index i on
RECURSIVE PieLoop(_, _, _, _)
PieLoop(data, total, i, start_angle) ==
    IF i >= Len(data) THEN <<>>
    ELSE IF data[i + 1].value = 0
         THEN PieLoop(data, total, i + 1, start_angle)
         ELSE LET sl == PieSlice(i, data[i + 1], total, Len(data), start_angle)
              IN  <<sl>> \o PieLoop(data, total, i + 1, sl.end_angle)

EmptyDoc == [kind |-> "empty", slices |-> <<>>]

NoDataDoc == [kind |-> "no data", slices |-> <<>>]

make_svg_pie_chart_unguarded(data) ==
    IF data = <<>> THEN EmptyDoc
    ELSE [kind |-> "svg",
          slices |-> PieLoop(PieBucket(data), PieTotal(data), 0, RatInt(0))]

make_svg_pie_chart(data) ==
    IF data = <<>> THEN EmptyDoc
    ELSE LET total == PieTotal(data)
         IN  IF total = 0 THEN NoDataDoc
             ELSE [kind |-> "svg",
                   slices |-> PieLoop(PieBucket(data), total, 0, RatInt(0))]

MaxPieLen == 7

MaxPieVal == 2

PieNames == <<"a", "b", "c", "d", "e", "f", "g", "h", "i", "j">>

PieInputs ==
    {[i \in 1..Len(vs) |-> [name |-> PieNames[i], value |-> vs[i]]] :
        vs \in SeqsUpTo(0..MaxPieVal, MaxPieLen)}

InitPie ==
    /\ pc = "call"
    /\ args \in [data : PieInputs]
    /\ ret = NoReturn

CallPie ==
    /\ pc = "call"
    /\ ret' = make_svg_pie_chart(args.data)
    /\ pc' = "done"
    /\ UNCHANGED args

NextPie == CallPie

SpecPie == InitPie /\ [][NextPie]_vars

\* Reading a chart ----------------------------------------------------------
\* the (name, value) pairs of the rendered slices, in drawing order
Shown(doc) ==
    [k \in 1..Len(doc.slices) |->
        [name |-> doc.slices[k].name, value |-> doc.slices[k].value]]

IsNonZero(item) == item.value # 0

\* sum of the values of items from..to of the input
RECURSIVE SumRange(_, _, _)
SumRange(data, from, to) ==
    IF from > to THEN 0 ELSE data[from].value + SumRange(data, from + 1, to)

RECURSIVE RatSum(_)
RatSum(s) == IF s = <<>> THEN RatInt(0) ELSE RatAdd(s[1], RatSum(Tail(s)))

InputTotal == SumRange(args.data, 1, Len(args.data))

\* C7: with more than PIE_CHART_MAX_ITEMS items the chart keeps the first
\* PIE_CHART_MAX_ITEMS - 1 items in the given order and replaces all the
\* others by one final "Other" slice holding their sum, added only when
\* that sum is positive; more than PIE_CHART_MAX_ITEMS nonzero items give
\* exactly PIE_CHART_MAX_ITEMS slices; with at most PIE_CHART_MAX_ITEMS
\* items there is no "Other" slice.
PieBucketing ==
    (pc = "done" /\ ret.kind = "svg") =>
        LET d == args.data
            n == Len(d)
            keep == PIE_CHART_MAX_ITEMS - 1
            rest == SumRange(d, keep + 1, n)
            other == [name |-> "Other", value |-> rest]
        IN  /\ n > PIE_CHART_MAX_ITEMS =>
                  /\ Shown(ret) =
                        SelectSeq(SubSeq(d, 1, keep), IsNonZero)
                            \o (IF rest > 0 THEN <<other>> ELSE <<>>)
                  /\ (\A j \in 1..n : d[j].value # 0) =>
                        /\ Len(ret.slices) = PIE_CHART_MAX_ITEMS
                        /\ Shown(ret)[PIE_CHART_MAX_ITEMS] = other
            /\ n <= PIE_CHART_MAX_ITEMS =>
                  /\ Shown(ret) = SelectSeq(d, IsNonZero)
                  /\ \A k \in 1..Len(ret.slices) :
                        ret.slices[k].name # "Other"

PieBucketingWitness ==
    /\ pc = "done"
    /\ Len(args.data) = PIE_CHART_MAX_ITEMS + 1
    /\ \A j \in 1..Len(args.data) : args.data[j].value # 0
    /\ args.data[PIE_CHART_MAX_ITEMS].value = 1
    /\ args.data[PIE_CHART_MAX_ITEMS + 1].value = 2
    /\ Len(ret.slices) = PIE_CHART_MAX_ITEMS
    /\ Shown(ret)[PIE_CHART_MAX_ITEMS] = [name |-> "Other", value |-> 3]

\* C8: for every input with total > 0 a chart is rendered, each rendered
\* slice spans value / total * 360 degrees, total being the sum of all
\* input values, and the angles of the rendered slices sum to 360 degrees.
PieAnglesSumTo360 ==
    (pc = "done" /\ InputTotal > 0) =>
        /\ ret.kind = "svg"
        /\ \A k \in 1..Len(ret.slices) :
              LET sl == ret.slices[k]
              IN  sl.angle.num * InputTotal = sl.value * 360 * sl.angle.den
        /\ RatSum([k \in 1..Len(ret.slices) |-> ret.slices[k].angle])
              = RatInt(360)

PieAnglesWitness ==
    /\ pc = "done"
    /\ Len(args.data) = PIE_CHART_MAX_ITEMS + 1
    /\ args.data[2].value = 0
    /\ Len(ret.slices) = 4
    /\ ret.slices[4].name = "Other"
    /\ ret.slices[4].angle = RatInt(180)

\* C9 as stated: whenever the values of the data list, of any length, sum
\* to 0, the function returns the "no data" sentinel and divides nothing.
PieZeroTotalGivesNoData ==
    (pc = "done" /\ InputTotal = 0) => ret = NoDataDoc

\* C9 amended: whenever the values of a non-empty data list sum to 0, the
\* function returns the "no data" sentinel; for the empty list it returns
\* the empty document; in both cases no slice is computed, so nothing is
\* divided.
PieZeroTotalNonEmptyGivesNoData ==
    (pc = "done" /\ InputTotal = 0) =>
        /\ args.data # <<>> => ret = NoDataDoc
        /\ args.data = <<>> => ret = EmptyDoc
        /\ ret.slices = <<>>

PieZeroTotalWitness ==
    /\ pc = "done"
    /\ Len(args.data) = 3
    /\ InputTotal = 0
    /\ ret = NoDataDoc

\* C10: the first rendered slice starts at 0 degrees, which is drawn at 12
\* o'clock; every later rendered slice starts where the previous one ended;
\* angles grow clockwise; zero-valued items take no angle (a slice starts at
\* 360/total times the sum of the values before it); the large-arc flag is
\* 1 exactly when the slice's angle is strictly greater than 180 degrees.
PieCumulativeLayout ==
    (pc = "done" /\ ret.kind = "svg") =>
        LET sls == ret.slices
        IN  /\ Len(sls) >= 1
            /\ sls[1].start_angle = RatInt(0)
            /\ sls[1].start_dir = RatInt(-90)
            /\ \A k \in 1..Len(sls) :
                  /\ k > 1 => sls[k].start_angle = sls[k - 1].end_angle
                  /\ RatLt(sls[k].start_angle, sls[k].end_angle)
                  /\ sls[k].sweep = 1
                  /\ sls[k].end_dir = RatSub(sls[k].end_angle, RatInt(90))
                  /\ sls[k].start_angle.num * InputTotal =
                        360 * SumRange(args.data, 1, sls[k].index)
                            * sls[k].start_angle.den
                  /\ sls[k].large_arc = 1 <=> 2 * sls[k].value > InputTotal
                  /\ sls[k].large_arc \in {0, 1}

PieLayoutWitness ==
    /\ pc = "done"
    /\ Values(args.data) = <<0, 2, 0, 1>>
    /\ Len(ret.slices) = 2
    /\ ret.slices[1].large_arc = 1
    /\ ret.slices[2].start_angle = RatInt(240)
    /\ ret.slices[2].large_arc = 0

(***************************************************************************)
(* reports._make_svg_bar_chart                                             *)
(***************************************************************************)
\* max(s) and min(s) of a non-empty list, without recursion
SeqMax(s) ==
    CHOOSE m \in {s[i] : i \in 1..Len(s)} : \A i \in 1..Len(s) : s[i] <= m

SeqMin(s) ==
    CHOOSE m \in {s[i] : i \in 1..Len(s)} : \A i \in 1..Len(s) : m <= s[i]

BarMaxValFromMin(data) ==
    IF SeqMin(Values(data)) = 0 THEN 1 ELSE SeqMin(Values(data))

\* max_val = max(v for _, v in data) or 1
BarMaxVal(data) ==
    IF SeqMax(Values(data)) = 0 THEN 1 ELSE SeqMax(Values(data))

BarHueDivFirst(i, n) == ((i \div n) * 360) % 360

\* hue = (i * 360 // len(data)) % 360
BarHue(i, n) == ((i * 360) \div n) % 360

\* One bar (label, <rect>, value text) of the chart, i counted from 0
BarOf(i, item, max_val, n) ==
    LET bar_height == 28
        bar_gap == 6
        label_width == 160
        value_width == 80
        chart_width == 700
        bar_area_width == chart_width - label_width - value_width
    IN  [index |-> i,
         name |-> item.name,
         value |-> item.value,
         x |-> label_width,
         y |-> i * (bar_height + bar_gap) + 10,
         bar_width |->
             IF max_val > 0
             THEN RatMul(RatDiv(RatInt(item.value), RatInt(max_val)),
                         RatInt(bar_area_width))
             ELSE RatInt(0),
         hue |-> BarHue(i, n)]

make_svg_bar_chart(data) ==
    IF data = <<>> THEN EmptyDoc
    ELSE LET max_val == BarMaxVal(data)
         IN  [kind |-> "svg",
              bars |-> [k \in 1..Len(data) |->
                           BarOf(k - 1, data[k], max_val, Len(data))]]

MaxBarLen == 4

MaxBarVal == 3

\* a label: "p" followed by the decimal numeral of i
LabelOf(i) == <<"p">> \o IntToStr(i)

\* Series of up to MaxBarLen bars with every combination of values, and two
\* long constant series around the number of integer hues (360).
BarInputs ==
    {[i \in 1..Len(vs) |-> [name |-> LabelOf(i), value |-> vs[i]]] :
        vs \in SeqsUpTo(0..MaxBarVal, MaxBarLen)}
    \cup {[i \in 1..n |-> [name |-> LabelOf(i), value |-> 1]] :
            n \in {360, 361}}

InitBar ==
    /\ pc = "call"
    /\ args \in [data : BarInputs]
    /\ ret = NoReturn

CallBar ==
    /\ pc = "call"
    /\ ret' = make_svg_bar_chart(args.data)
    /\ pc' = "done"
    /\ UNCHANGED args

NextBar == CallBar

SpecBar == InitBar /\ [][NextBar]_vars

\* the drawable width of the bar area: 700 - 160 - 80
BarAreaWidth == 460

\* C11: an empty series gives the empty document; otherwise bar i has
\* length value_i / max(values) * bar_area_width, the denominator being 1
\* when the maximum is 0, so every length lies in [0, bar_area_width], a bar
\* holding a positive maximum spans the whole bar area, and an all-zero
\* series has only zero-length bars.
BarLengths ==
    pc = "done" =>
        IF args.data = <<>> THEN ret = EmptyDoc
        ELSE LET vs == Values(args.data)
                 top == CHOOSE m \in {vs[i] : i \in 1..Len(vs)} :
                            \A i \in 1..Len(vs) : vs[i] <= m
                 denom == IF top = 0 THEN 1 ELSE top
             IN  /\ ret.kind = "svg"
                 /\ Len(ret.bars) = Len(args.data)
                 /\ \A k \in 1..Len(ret.bars) :
                       LET w == ret.bars[k].bar_width
                       IN  /\ w.den > 0
                           /\ w.num * denom = vs[k] * BarAreaWidth * w.den
                           /\ 0 <= w.num
                           /\ w.num <= BarAreaWidth * w.den
                           /\ (vs[k] = top /\ top > 0) =>
                                 w = RatInt(BarAreaWidth)
                           /\ top = 0 => w = RatInt(0)

BarLengthsWitness ==
    /\ pc = "done"
    /\ Values(args.data) = <<1, 3, 0, 2>>
    /\ ret.bars[2].bar_width = RatInt(BarAreaWidth)
    /\ ret.bars[3].bar_width = RatInt(0)
    /\ ret.bars[1].bar_width = Rat(BarAreaWidth, 3)

BarAllZeroWitness ==
    /\ pc = "done"
    /\ Values(args.data) = <<0, 0>>
    /\ ret.kind = "svg"
    /\ ret.bars[1].bar_width = RatInt(0)
    /\ ret.bars[2].bar_width = RatInt(0)

BarHuesFollowFormula ==
    \A k \in 1..Len(ret.bars) :
        ret.bars[k].hue = (((k - 1) * 360) \div Len(ret.bars)) % 360

BarHuesDistinct ==
    \A k, l \in 1..Len(ret.bars) :
        k # l => ret.bars[k].hue # ret.bars[l].hue

\* C12: in a chart of N bars, bar i has hue (i*360/N) mod 360 and
\* no two bars of one chart have the same hue, for every N >= 1.
BarHuesAlwaysDistinct ==
    (pc = "done" /\ ret.kind = "svg") =>
        BarHuesFollowFormula /\ BarHuesDistinct

\* With integer hues the rotation separates the bars only while N <= 360:
\* for those charts no two bars have the same hue.
BarHuesDistinctUpTo360 ==
    (pc = "done" /\ ret.kind = "svg") =>
        /\ BarHuesFollowFormula
        /\ Len(ret.bars) <= 360 => BarHuesDistinct

BarHuesWitness ==
    /\ pc = "done"
    /\ ret.kind = "svg"
    /\ Len(ret.bars) = 360
    /\ ret.bars[1].hue = 0
    /\ ret.bars[2].hue = 1
    /\ ret.bars[360].hue = 359

(***************************************************************************)
(* reports._make_single_line_chart                                         *)
(* Dates are ISO strings that the code only copies and orders; they are    *)
(* kept as day numbers, which order the same way.                          *)
(***************************************************************************)
LineChartWidth == 600

LineChartHeight == 200

\* max(a, b)
Max2(a, b) == IF a > b THEN a ELSE b

\* margin = {"top": 20, "right": 20, "bottom": 40, "left": 80}
LineMargin == [top |-> 20, right |-> 20, bottom |-> 40, left |-> 80]

LinePlotWidth ==
    LineChartWidth - LineMargin.left - LineMargin.right

LinePlotHeight ==
    LineChartHeight - LineMargin.top - LineMargin.bottom

\* max_val = max(values) or 1
LineMaxVal(values) == IF SeqMax(values) = 0 THEN 1 ELSE SeqMax(values)

LineXByCount(i, n, left, plot_width) ==
    RatAdd(RatInt(left),
           RatMul(RatDiv(RatInt(i), RatInt(Max2(1, n))), RatInt(plot_width)))

\* x = margin["left"] + (i / max(1, n - 1)) * plot_width
LineX(i, n, left, plot_width) ==
    RatAdd(RatInt(left),
           RatMul(RatDiv(RatInt(i), RatInt(Max2(1, n - 1))),
                  RatInt(plot_width)))

\* y = margin["top"] + plot_height - (val / max_val) * plot_height
LineY(val, max_val, top, plot_height) ==
    RatSub(RatInt(top + plot_height),
           RatMul(RatDiv(RatInt(val), RatInt(max_val)), RatInt(plot_height)))

\* the five grid lines with their labels, i = 0..4
LineGrid(max_val, top, plot_height) ==
    [k \in 1..5 |->
        [label |-> RatTrunc(RatDiv(RatInt(max_val * (4 - (k - 1))),
                                   RatInt(4))),
         y_pos |-> RatAdd(RatInt(top),
                          RatDiv(RatInt((k - 1) * plot_height), RatInt(4)))]]

\* the x-axis ticks at the first, middle and last date
LineTicks(dates) ==
    LET idxs == <<0, Len(dates) \div 2, Len(dates) - 1>>
    IN  [k \in 1..3 |->
            [x_pos |-> RatAdd(RatInt(LineMargin.left),
                              RatMul(RatDiv(RatInt(idxs[k]),
                                            RatInt(Len(dates) - 1)),
                                     RatInt(LinePlotWidth))),
             date |-> dates[idxs[k] + 1]]]

LinePointsDropLast(values, max_val) ==
    [k \in 1..(Len(values) - 1) |->
        [x |-> LineX(k - 1, Len(values), LineMargin.left, LinePlotWidth),
         y |-> LineY(values[k], max_val, LineMargin.top, LinePlotHeight)]]

\* the points of the polyline: for i, val in enumerate(values)
LinePoints(values, max_val) ==
    [k \in 1..Len(values) |->
        [x |-> LineX(k - 1, Len(values), LineMargin.left, LinePlotWidth),
         y |-> LineY(values[k], max_val, LineMargin.top, LinePlotHeight)]]

make_single_line_chart(dates, values) ==
    IF Len(dates) < 2 \/ Len(values) < 2 THEN EmptyDoc
    ELSE LET max_val == LineMaxVal(values)
         IN  [kind |-> "svg",
              grid |-> LineGrid(max_val, LineMargin.top, LinePlotHeight),
              ticks |-> LineTicks(dates),
              polylines |-> <<LinePoints(values, max_val)>>]

MaxDay == 5

MaxLineLen == 4

MaxLineVal == 2

\* the elements of a set of integers in ascending order: sorted(S)
SortedSeq(S) ==
    CHOOSE s \in [1..Cardinality(S) -> S] :
        \A i, j \in 1..Cardinality(S) : i < j => s[i] < s[j]

\* ascending date lists with regular and irregular gaps
DateLists == {SortedSeq(S) : S \in SUBSET (1..MaxDay)}

InitLine ==
    /\ pc = "call"
    /\ args \in [dates : {d \in DateLists : Len(d) <= MaxLineLen},
                 values : SeqsUpTo(0..MaxLineVal, MaxLineLen)]
    /\ ret = NoReturn

CallLine ==
    /\ pc = "call"
    /\ ret' = make_single_line_chart(args.dates, args.values)
    /\ pc' = "done"
    /\ UNCHANGED args

NextLine == CallLine

SpecLine == InitLine /\ [][NextLine]_vars

\* C13: with fewer than 2 points the result is the empty document; with
\* n >= 2 points the document has exactly one polyline and that polyline
\* has exactly n points, in input order (point i carries value i and lies
\* to the right of point i - 1).
LineOnePolyline ==
    pc = "done" =>
        IF Len(args.dates) < 2 \/ Len(args.values) < 2 THEN ret = EmptyDoc
        ELSE LET n == Len(args.values)
                 top == CHOOSE m \in {args.values[i] : i \in 1..n} :
                            \A i \in 1..n : args.values[i] <= m
                 denom == IF top = 0 THEN 1 ELSE top
             IN  /\ ret.kind = "svg"
                 /\ Len(ret.polylines) = 1
                 /\ Len(ret.polylines[1]) = n
                 /\ \A i \in 1..n :
                       LET pt == ret.polylines[1][i]
                       IN  /\ pt.y.num * denom =
                                (160 * denom - args.values[i] * 140) * pt.y.den
                           /\ i > 1 => RatLt(ret.polylines[1][i - 1].x, pt.x)

LineOnePolylineWitness ==
    /\ pc = "done"
    /\ args.dates = <<1, 2, 3>>
    /\ args.values = <<1, 0, 2>>
    /\ Len(ret.polylines) = 1
    /\ Len(ret.polylines[1]) = 3
    /\ ret.polylines[1][3].y = RatInt(20)
    /\ ret.polylines[1][2].y = RatInt(160)

LineSinglePointWitness ==
    /\ pc = "done"
    /\ Len(args.dates) = 1
    /\ Len(args.values) = 1
    /\ ret = EmptyDoc

\* C14: point i of n >= 2 lies at plot_left + i / (n - 1) * plot_width
\* whatever the dates are: the first at offset 0, the last at offset
\* plot_width, and 3 points at offsets 0, plot_width / 2 and plot_width.
LineEvenSpacing ==
    (pc = "done" /\ ret.kind = "svg") =>
        LET pts == ret.polylines[1]
            n == Len(pts)
        IN  /\ n = Len(args.values)
            /\ \A i \in 1..n :
                  (pts[i].x.num - 80 * pts[i].x.den) * (n - 1) =
                      (i - 1) * 500 * pts[i].x.den
            /\ pts[1].x = RatInt(80)
            /\ pts[n].x = RatInt(80 + 500)
            /\ n = 3 => pts[2].x = RatInt(80 + 250)

LineEvenSpacingWitness ==
    /\ pc = "done"
    /\ args.dates = <<1, 2, 5>>
    /\ Len(args.values) = 3
    /\ ret.kind = "svg"
    /\ ret.polylines[1][1].x = RatInt(80)
    /\ ret.polylines[1][2].x = RatInt(330)
    /\ ret.polylines[1][3].x = RatInt(580)

(***************************************************************************)
(* reports._make_multi_line_chart                                          *)
(*                                                                         *)
(* history_data is None or Some(mapping); a mapping is the sequence of its *)
(* items in insertion order, each [pkg, history]; a history is a list of   *)
(* records [fetch_date, total] with total None or Some(n).  The document   *)
(* is "" (EmptyDoc), the "not enough data" paragraph, the chart, or the    *)
(* exception the call ends with.                                           *)
(***************************************************************************)
LINE_CHART_MAX_SERIES == 5

\* margin = {"top": 20, "right": 120, "bottom": 40, "left": 80}
MultiMargin == [top |-> 20, right |-> 120, bottom |-> 40, left |-> 80]

\* plot_width = chart_width - margin["left"] - margin["right"]
MultiPlotWidth == 700 - MultiMargin.left - MultiMargin.right

\* plot_height = chart_height - margin["top"] - margin["bottom"]
MultiPlotHeight == 300 - MultiMargin.top - MultiMargin.bottom

NotEnoughDoc == [kind |-> "not enough data", slices |-> <<>>]

RaiseDoc(exc) == [kind |-> "raise", exc |-> exc]

\* h["total"] or 0
TotalOrZero(h) == IF h.total = None THEN 0 ELSE h.total[1]

\* all_dates: every fetch_date of every history of the mapping
MultiAllDates(hd) ==
    UNION {{hd[e].history[i].fetch_date : i \in 1..Len(hd[e].history)} :
              e \in 1..Len(hd)}

\* max_val: the running max from 0 over all records, then "or 1"
MultiMaxVal(hd) ==
    LET totals == UNION {{TotalOrZero(hd[e].history[i]) :
                             i \in 1..Len(hd[e].history)} : e \in 1..Len(hd)}
        m == CHOOSE v \in totals \cup {0} : \A w \in totals \cup {0} : w <= v
    IN  IF m = 0 THEN 1 ELSE m

\* the sort key of an entity: max((h["total"] or 0) for h in history)
MultiOwnMax(history) ==
    SeqMax([i \in 1..Len(history) |-> TotalOrZero(history[i])])

\* sorted(keys, key = own max, reverse = True): the positions of the items
\* by key descending, equal keys keeping their input order
MultiRanked(hd) ==
    LET n == Len(hd)
        key(e) == MultiOwnMax(hd[e].history)
    IN  CHOOSE p \in [1..n -> 1..n] :
            \A i, j \in 1..n :
                i < j => \/ key(p[i]) > key(p[j])
                         \/ key(p[i]) = key(p[j]) /\ p[i] < p[j]

\* top_packages = sorted(...)[:max_lines], as positions in the mapping
MultiTopPackages(hd, max_lines) ==
    LET ranked == MultiRanked(hd)
    IN  IF Len(ranked) > max_lines THEN SubSeq(ranked, 1, max_lines)
        ELSE ranked

\* sorted(history, key = fetch_date): ascending, equal dates in input order
MultiSortedHistory(history) ==
    LET n == Len(history)
        p == CHOOSE q \in [1..n -> 1..n] :
                 \A i, j \in 1..n :
                     i < j =>
                        \/ history[q[i]].fetch_date < history[q[j]].fetch_date
                        \/ /\ history[q[i]].fetch_date
                                = history[q[j]].fetch_date
                           /\ q[i] < q[j]
    IN  [k \in 1..n |-> history[p[k]]]

\* sorted_dates.index(d), counted from 0
MultiDateIdx(sorted_dates, d) ==
    (CHOOSE k \in 1..Len(sorted_dates) :
        /\ sorted_dates[k] = d
        /\ \A j \in 1..(k - 1) : sorted_dates[j] # d) - 1

\* x = margin["left"] + (date_idx / max(1, len(sorted_dates) - 1)) * plot_width
MultiX(date_idx, n_dates) ==
    RatAdd(RatInt(MultiMargin.left),
           RatMul(RatDiv(RatInt(date_idx), RatInt(Max2(1, n_dates - 1))),
                  RatInt(MultiPlotWidth)))

\* y = margin["top"] + plot_height - ((h["total"] or 0) / max_val) * plot_height
MultiY(val, max_val) ==
    RatSub(RatInt(MultiMargin.top + MultiPlotHeight),
           RatMul(RatDiv(RatInt(val), RatInt(max_val)),
                  RatInt(MultiPlotHeight)))

MultiPointsByPosition(pkg_history, sorted_dates, max_val) ==
    [k \in 1..Len(pkg_history) |->
        [x |-> MultiX(k - 1, Len(sorted_dates)),
         y |-> MultiY(TotalOrZero(pkg_history[k]), max_val)]]

\* the points of one entity: for h in pkg_history
MultiPoints(pkg_history, sorted_dates, max_val) ==
    [k \in 1..Len(pkg_history) |->
        [x |-> MultiX(MultiDateIdx(sorted_dates, pkg_history[k].fetch_date),
                      Len(sorted_dates)),
         y |-> MultiY(TotalOrZero(pkg_history[k]), max_val)]]

\* hue = (pkg_idx * 360 // len(top_packages)) % 360
MultiHue(pkg_idx, n_top) == ((pkg_idx * 360) \div n_top) % 360

\* one pass of the loop over top_packages: the polyline and its end label
MultiSeries(hd, top, k, sorted_dates, max_val) ==
    LET pkg_history == MultiSortedHistory(hd[top[k]].history)
        last_h == pkg_history[Len(pkg_history)]
    IN  [pkg |-> hd[top[k]].pkg,
         hue |-> MultiHue(k - 1, Len(top)),
         points |-> MultiPoints(pkg_history, sorted_dates, max_val),
         label_x |-> RatAdd(MultiX(Len(sorted_dates) - 1, Len(sorted_dates)),
                            RatInt(8)),
         label_y |-> IF pkg_history = <<>> THEN RatInt(0)
                     ELSE RatAdd(MultiY(TotalOrZero(last_h), max_val),
                                 RatInt(4))]

\* the x-axis labels at the first, middle and last date
MultiTicks(sorted_dates) ==
    LET idxs == <<0, Len(sorted_dates) \div 2, Len(sorted_dates) - 1>>
    IN  [k \in 1..3 |->
            [x_pos |-> MultiX(idxs[k], Len(sorted_dates)),
             date |-> sorted_dates[idxs[k] + 1]]]

\* the five grid lines with their labels, i = 0..4
MultiGrid(max_val) ==
    [k \in 1..5 |->
        [label |-> RatTrunc(RatDiv(RatInt(max_val * (4 - (k - 1))),
                                   RatInt(4))),
         y_pos |-> RatAdd(RatInt(MultiMargin.top),
                          RatDiv(RatInt((k - 1) * MultiPlotHeight),
                                 RatInt(4)))]]

make_multi_line_chart(history_data, max_lines) ==
    IF history_data = None \/ history_data[1] = <<>> THEN EmptyDoc
    ELSE LET hd == history_data[1]
             all_dates == MultiAllDates(hd)
         IN  IF all_dates = {} THEN EmptyDoc
             ELSE IF Cardinality(all_dates) < 2 THEN NotEnoughDoc
             \* the sort key takes max() of each history: an empty one
             \* makes it raise ValueError
             ELSE IF \E e \in 1..Len(hd) : hd[e].history = <<>>
                  THEN RaiseDoc("ValueError")
             ELSE LET sorted_dates == SortedSeq(all_dates)
                      max_val == MultiMaxVal(hd)
                      top == MultiTopPackages(hd, max_lines)
                      series == [k \in 1..Len(top) |->
                                   MultiSeries(hd, top, k, sorted_dates,
                                               max_val)]
                      drawn(s) == s.points # <<>>
                  IN  [kind |-> "svg",
                       axis |-> sorted_dates,
                       grid |-> MultiGrid(max_val),
                       ticks |-> MultiTicks(sorted_dates),
                       polylines |-> SelectSeq(series, drawn)]

MaxMultiDay == 2

MaxMultiTotal == 1

MaxMultiRecords == 3

MultiNames == <<"a", "b", "c">>

\* the stored totals: null or a count
MultiTotals == {None} \cup {Some(v) : v \in 0..MaxMultiTotal}

\* the history of entity e in a table of records keyed by (entity, day),
\* listed oldest first or newest first
MultiHistoryOf(e, cells, tot, newest_first) ==
    LET days == SortedSeq({d \in 1..MaxMultiDay : <<e, d>> \in cells})
        n == Len(days)
    IN  [k \in 1..n |->
            LET d == IF newest_first THEN days[n + 1 - k] ELSE days[k]
            IN  [fetch_date |-> d, total |-> tot[<<e, d>>]]]

\* the mapping of the first n names over a table of records
MultiMapping(n, cells, tot, newest_first) ==
    [e \in 1..n |->
        [pkg |-> MultiNames[e],
         history |-> MultiHistoryOf(e, cells, tot, newest_first)]]

\* the tables of at most MaxMultiRecords records of the first n names
MultiCells(n) ==
    {c \in SUBSET ((1..n) \X (1..MaxMultiDay)) :
        Cardinality(c) <= MaxMultiRecords}

InitMultiLine ==
    /\ pc = "call"
    /\ \E max_lines \in {1, 2, LINE_CHART_MAX_SERIES} :
          \/ args = [history_data |-> None, max_lines |-> max_lines]
          \/ \E n \in 0..Len(MultiNames) :
                \E cells \in MultiCells(n) :
                   \E tot \in [cells -> MultiTotals], nf \in BOOLEAN :
                      args = [history_data |->
                                  Some(MultiMapping(n, cells, tot, nf)),
                              max_lines |-> max_lines]
    /\ ret = NoReturn

CallMultiLine ==
    /\ pc = "call"
    /\ ret' = make_multi_line_chart(args.history_data, args.max_lines)
    /\ pc' = "done"
    /\ UNCHANGED args

NextMultiLine == CallMultiLine

SpecMultiLine == InitMultiLine /\ [][NextMultiLine]_vars

\* the positions of the entities of a mapping that have at least one record
MultiWithRecords(hd) == {e \in 1..Len(hd) : hd[e].history # <<>>}

\* the largest total of the records of entity e, null counted as 0
MultiLargestTotal(hd, e) ==
    CHOOSE m \in {TotalOrZero(hd[e].history[i]) : i \in 1..Len(hd[e].history)} :
        \A i \in 1..Len(hd[e].history) : TotalOrZero(hd[e].history[i]) <= m

\* the place of entity e among the entities with records: larger own
\* maximum first, equal maxima in the mapping's order
MultiPlace(hd, e) ==
    1 + Cardinality({f \in MultiWithRecords(hd) :
            \/ MultiLargestTotal(hd, f) > MultiLargestTotal(hd, e)
            \/ /\ MultiLargestTotal(hd, f) = MultiLargestTotal(hd, e)
               /\ f < e})

\* the selection the chart is to show for a mapping and max_lines
MultiSelectionOf(hd, max_lines, doc) ==
    LET n == IF max_lines < Cardinality(MultiWithRecords(hd))
             THEN max_lines ELSE Cardinality(MultiWithRecords(hd))
    IN  /\ doc.kind = "svg"
        /\ Len(doc.polylines) = n
        /\ \A k \in 1..n :
              \E e \in MultiWithRecords(hd) :
                 /\ MultiPlace(hd, e) = k
                 /\ doc.polylines[k].pkg = hd[e].pkg
                 /\ doc.polylines[k].hue = (((k - 1) * 360) \div n) % 360

\* the call reached the drawing of the chart: a mapping with at least two
\* distinct dates
MultiChartStage ==
    /\ pc = "done"
    /\ args.history_data # None
    /\ Cardinality(MultiAllDates(args.history_data[1])) >= 2

\* C15: in a multi-series chart the polylines are the first max_lines
\* entities by own maximum total descending, ties in the mapping's order;
\* their number is min(max_lines, number of entities with at least one
\* record), and polyline k of n has hue (k * 360 // n) % 360.
MultiSelection ==
    MultiChartStage =>
        MultiSelectionOf(args.history_data[1], args.max_lines, ret)

\* the selection holds for every mapping in which each entity has a record
MultiSelectionWithoutEmptyHistory ==
    (MultiChartStage /\ \A e \in 1..Len(args.history_data[1]) :
                           args.history_data[1][e].history # <<>>) =>
        MultiSelectionOf(args.history_data[1], args.max_lines, ret)

\* three entities with records, ties among them, two of them drawn
MultiSelectionWitness ==
    /\ MultiChartStage
    /\ Len(args.history_data[1]) = 3
    /\ args.max_lines = 2
    /\ ret.kind = "svg"
    /\ MultiLargestTotal(args.history_data[1], 1) = 0
    /\ MultiLargestTotal(args.history_data[1], 2) = 1
    /\ MultiLargestTotal(args.history_data[1], 3) = 1
    /\ Len(ret.polylines) = 2
    /\ ret.polylines[1].pkg = "b"
    /\ ret.polylines[2].pkg = "c"
    /\ ret.polylines[2].hue = 180

\* C16: the axis of a multi-series chart is the ascending list of the
\* distinct dates of all entities, drawn or not; the polyline of a drawn
\* entity has one point per record of that entity, the point of the i-th
\* oldest record lying at the index of its date in the axis
\* (x = 80 + index / (dates - 1) * 500) at the height of its total.
MultiMergedAxis ==
    (pc = "done" /\ ret.kind = "svg") =>
        LET hd == args.history_data[1]
            dates == MultiAllDates(hd)
            n == Len(ret.axis)
        IN  /\ n = Cardinality(dates)
            /\ {ret.axis[i] : i \in 1..n} = dates
            /\ \A i, j \in 1..n : i < j => ret.axis[i] < ret.axis[j]
            /\ \A k \in 1..Len(ret.polylines) :
                  \E e \in 1..Len(hd) :
                     LET history == hd[e].history
                         points == ret.polylines[k].points
                     IN  /\ hd[e].pkg = ret.polylines[k].pkg
                         /\ Len(points) = Len(history)
                         /\ \A j \in 1..Len(history) :
                               LET d == history[j].fetch_date
                                   i == 1 + Cardinality(
                                          {q \in 1..Len(history) :
                                              history[q].fetch_date < d})
                                   index == Cardinality(
                                              {x \in dates : x < d})
                                   pt == points[i]
                               IN  /\ pt.x.num * (n - 1) =
                                        (80 * (n - 1) + index * 500)
                                            * pt.x.den
                                   /\ pt.y.num * MultiMaxVal(hd) =
                                        (260 * MultiMaxVal(hd)
                                           - TotalOrZero(history[j]) * 240)
                                            * pt.y.den

\* the drawn entity lacks a date that only the entity not drawn has: the
\* axis has both dates, the polyline one point, at the second date
MultiMergedAxisWitness ==
    /\ pc = "done"
    /\ ret.kind = "svg"
    /\ args.max_lines = 1
    /\ Len(args.history_data[1]) = 2
    /\ Len(args.history_data[1][1].history) = 1
    /\ args.history_data[1][1].history[1].fetch_date = 2
    /\ args.history_data[1][1].history[1].total = Some(1)
    /\ ret.axis = <<1, 2>>
    /\ Len(ret.polylines) = 1
    /\ ret.polylines[1].pkg = "a"
    /\ Len(ret.polylines[1].points) = 1
    /\ ret.polylines[1].points[1].x = RatInt(580)

\* C17: a chart function never ends with an exception; for a mapping in
\* which an entity has an empty history list the multi-series chart
\* returns the empty document, the placeholder or a chart.
ChartsNeverRaise ==
    pc = "done" => ret.kind \in {"empty", "not enough data", "svg"}

\* the call that ends with ValueError: two dated records and an entity
\* with an empty history
MultiRaiseWitness ==
    /\ pc = "done"
    /\ args.history_data # None
    /\ Len(args.history_data[1]) = 2
    /\ Len(args.history_data[1][1].history) = 2
    /\ args.history_data[1][2].history = <<>>
    /\ ret = RaiseDoc("ValueError")

(***************************************************************************)
(* export.export_csv, export_json, export_markdown;                        *)
(* reports.generate_html_report, _build_env_charts,                        *)
(* generate_package_html_report; cli.cmd_report                            *)
(*                                                                         *)
(* A stored row is [package_name, fetch_date, total, last_month,           *)
(* last_week, last_day]; a numeric field is None (NULL) or Some(n).  A     *)
(* report generator ends by returning or with an exception, and has        *)
(* written a document to the output file or not: [kind, exc, file].        *)
(***************************************************************************)
\* x or 0
OrZero(x) == IF x = None THEN 0 ELSE x[1]

\* f"{n:,}" for n >= 0
RECURSIVE FormatCommas(_)
FormatCommas(n) ==
    IF n < 1000 THEN IntToStr(n)
    ELSE LET r == n % 1000
             pad == IF r < 10 THEN <<"0", "0">>
                    ELSE IF r < 100 THEN <<"0">> ELSE <<>>
         IN  FormatCommas(n \div 1000) \o <<",">> \o pad \o IntToStr(r)

\* the rows csv.writer writes after the header: every cell str(value)
export_csv(stats) ==
    [i \in 1..Len(stats) |->
        [rank |-> IntToStr(i),
         package_name |-> stats[i].package_name,
         total |-> IntToStr(OrZero(stats[i].total)),
         last_month |-> IntToStr(OrZero(stats[i].last_month)),
         last_week |-> IntToStr(OrZero(stats[i].last_week)),
         last_day |-> IntToStr(OrZero(stats[i].last_day)),
         fetch_date |-> stats[i].fetch_date]]

\* the "packages" list of the JSON document
export_json(stats) ==
    [i \in 1..Len(stats) |->
        [rank |-> i,
         name |-> stats[i].package_name,
         total |-> OrZero(stats[i].total),
         last_month |-> OrZero(stats[i].last_month),
         last_week |-> OrZero(stats[i].last_week),
         last_day |-> OrZero(stats[i].last_day),
         fetch_date |-> stats[i].fetch_date]]

\* the table lines after the two header lines
export_markdown(stats) ==
    [i \in 1..Len(stats) |->
        [rank |-> IntToStr(i),
         package_name |-> stats[i].package_name,
         total |-> FormatCommas(OrZero(stats[i].total)),
         last_month |-> FormatCommas(OrZero(stats[i].last_month)),
         last_week |-> FormatCommas(OrZero(stats[i].last_week)),
         last_day |-> FormatCommas(OrZero(stats[i].last_day))]]

\* how a call of a report generator ends: exc is None or Some(exception),
\* file is None or Some(document written)
ReportOutcome(exc, file) ==
    [kind |-> IF exc = None THEN "returned" ELSE "raise",
     exc |-> exc,
     file |-> file]

\* sorted(data, key=lambda x: x[1], reverse=True): by value descending,
\* equal values in input order
SortedByValueDesc(data) ==
    LET n == Len(data)
        p == CHOOSE q \in [1..n -> 1..n] :
                 \A i, j \in 1..n :
                     i < j => \/ data[q[i]].value > data[q[j]].value
                              \/ /\ data[q[i]].value = data[q[j]].value
                                 /\ q[i] < q[j]
    IN  [k \in 1..n |-> data[p[k]]]

\* env_summary is None or Some([python_versions, os_distribution])
generate_html_report(stats, history, env_summary) ==
    IF stats = <<>> THEN ReportOutcome(None, None)
    ELSE LET data(f) == [i \in 1..Len(stats) |->
                            [name |-> stats[i].package_name,
                             value |-> OrZero(stats[i][f])]]
             time_series_chart ==
                 IF history = None \/ history[1] = <<>> THEN EmptyDoc
                 ELSE make_multi_line_chart(history, LINE_CHART_MAX_SERIES)
             py_data == IF env_summary = None THEN <<>>
                        ELSE env_summary[1].python_versions
             os_data == IF env_summary = None THEN <<>>
                        ELSE env_summary[1].os_distribution
         IN  IF time_series_chart.kind = "raise"
             THEN ReportOutcome(Some(time_series_chart.exc), None)
             ELSE ReportOutcome(None, Some(
                 [totals_chart |-> make_svg_bar_chart(data("total")),
                  month_chart |->
                      make_svg_bar_chart(SortedByValueDesc(data("last_month"))),
                  day_chart |->
                      make_svg_bar_chart(SortedByValueDesc(data("last_day"))),
                  time_series_chart |-> time_series_chart,
                  py_chart |-> IF py_data # <<>>
                               THEN make_svg_pie_chart(py_data) ELSE EmptyDoc,
                  os_chart |-> IF os_data # <<>>
                               THEN make_svg_pie_chart(os_data) ELSE EmptyDoc,
                  table_rows |->
                      [i \in 1..Len(stats) |->
                          [rank |-> i,
                           package_name |-> stats[i].package_name,
                           total |-> FormatCommas(OrZero(stats[i].total)),
                           last_month |->
                               FormatCommas(OrZero(stats[i].last_month)),
                           last_week |->
                               FormatCommas(OrZero(stats[i].last_week)),
                           last_day |->
                               FormatCommas(OrZero(stats[i].last_day))]]]))

build_env_charts_unfiltered(py_versions, os_stats) ==
    LET item(v) == [name |-> IF v.category = "null" THEN "Unknown"
                             ELSE v.category,
                    value |-> v.downloads]
        chart(d) == IF d = None \/ d[1] = <<>> THEN EmptyDoc
                    ELSE make_svg_pie_chart(
                             [i \in 1..Len(d[1]) |-> item(d[1][i])])
    IN  [py_version_chart |-> chart(py_versions), os_chart |-> chart(os_stats)]

\* py_versions and os_stats are None or Some(list of [category, downloads])
build_env_charts(py_versions, os_stats) ==
    LET kept(v) == v.category # "" /\ v.category # "null"
        py_data == LET vs == SelectSeq(py_versions[1], kept)
                   IN  [i \in 1..Len(vs) |->
                           [name |-> vs[i].category,
                            value |-> vs[i].downloads]]
        os_data == [i \in 1..Len(os_stats[1]) |->
                       [name |-> IF os_stats[1][i].category = "null"
                                 THEN "Unknown"
                                 ELSE os_stats[1][i].category,
                        value |-> os_stats[1][i].downloads]]
    IN  [py_version_chart |->
             IF py_versions = None \/ py_versions[1] = <<>> THEN EmptyDoc
             ELSE make_svg_pie_chart(py_data),
         os_chart |->
             IF os_stats = None \/ os_stats[1] = <<>> THEN EmptyDoc
             ELSE make_svg_pie_chart(os_data)]

\* stats is None or Some([total, last_month, last_week, last_day]);
\* fetched, py_versions and os_stats are what fetch_package_stats,
\* fetch_python_versions and fetch_os_stats return during the call
generate_package_html_report(stats, history, fetched, py_versions, os_stats) ==
    LET st == IF stats = None THEN fetched ELSE stats
    IN  IF st = None THEN ReportOutcome(None, None)
        ELSE LET charts == build_env_charts(py_versions, os_stats)
                 sorted_history == MultiSortedHistory(history)
                 dates == [i \in 1..Len(history) |->
                              sorted_history[i].fetch_date]
                 values == [i \in 1..Len(history) |->
                               OrZero(sorted_history[i].total)]
                 history_chart ==
                     IF Len(history) >= 2
                     THEN make_single_line_chart(dates, values)
                     ELSE EmptyDoc
                 s == st[1]
             IN  \* format(None, ",") raises TypeError
                 IF \/ s.total = None \/ s.last_month = None
                    \/ s.last_week = None \/ s.last_day = None
                 THEN ReportOutcome(Some("TypeError"), None)
                 ELSE ReportOutcome(None, Some(
                     [cards |->
                          [total |-> FormatCommas(s.total[1]),
                           last_month |-> FormatCommas(s.last_month[1]),
                           last_week |-> FormatCommas(s.last_week[1]),
                           last_day |-> FormatCommas(s.last_day[1])],
                      history_chart |-> history_chart,
                      py_slot |->
                          IF charts.py_version_chart # EmptyDoc
                          THEN charts.py_version_chart
                          ELSE [kind |-> "placeholder",
                                text |-> "Python version data not available"],
                      os_slot |->
                          IF charts.os_chart # EmptyDoc
                          THEN charts.os_chart
                          ELSE [kind |-> "placeholder",
                                text |-> "OS data not available"]]))

\* a: the arguments of the command with what the store and the network
\* return during the run: rows is get_package_history(package) when a
\* package is given and get_latest_stats() otherwise.  The branch is taken
\* on the truth of the argument ("if package:"), so the empty name runs
\* the summary like no name at all.  The result is the outcome of the
\* generator with the browser having been opened or not.
cmd_report(a) ==
    LET OfPackage(h) == h.package_name = a.package[1]
        matching == SelectSeq(a.rows, OfPackage)
        pkg_stats == IF matching = <<>> THEN None
                     ELSE Some([total |-> matching[1].total,
                                last_month |-> matching[1].last_month,
                                last_week |-> matching[1].last_week,
                                last_day |-> matching[1].last_day])
        single == a.package # None /\ a.package[1] # ""
        out == IF single
               THEN generate_package_html_report(
                        pkg_stats, a.rows, a.fetched,
                        a.py_versions, a.os_stats)
               ELSE generate_html_report(a.rows, a.all_history,
                                         a.env_summary)
    IN  IF ~single /\ a.rows = <<>>
        THEN [kind |-> "returned", exc |-> None, file |-> None,
              browser |-> FALSE]
        ELSE [kind |-> out.kind, exc |-> out.exc, file |-> out.file,
              browser |-> out.kind = "returned" /\ ~a.no_browser]

MaxStat == 1

\* what a numeric column of a stored row holds: NULL or a count
StoredValues == {None} \cup {Some(v * 1234) : v \in 0..MaxStat}

StoredRow(name, date, total, last_month, last_week, last_day) ==
    [package_name |-> name, fetch_date |-> date, total |-> total,
     last_month |-> last_month, last_week |-> last_week,
     last_day |-> last_day]

\* the rows a query of the store returns, newest first: no row, one row,
\* or two rows; of one package when a package is given, else of "a", "b"
RenderRows(package) ==
    LET name(i) == IF package = None THEN MultiNames[i] ELSE package[1]
    IN  {<<>>}
        \cup {<<StoredRow(name(1), 2, t, m, w, d)>> :
                 t \in StoredValues, m \in StoredValues,
                 w \in StoredValues, d \in StoredValues}
        \cup {<<StoredRow(name(1), 2, t, m, w, d),
                StoredRow(name(2), 1, x, x, x, x)>> :
                 t \in StoredValues, m \in StoredValues,
                 w \in StoredValues, d \in StoredValues,
                 x \in StoredValues}

\* get_all_history() of a store holding exactly these rows
RenderAllHistory(rows) ==
    Some([e \in 1..Len(rows) |->
             [pkg |-> rows[e].package_name,
              history |-> <<[fetch_date |-> rows[e].fetch_date,
                             total |-> rows[e].total]>>]])

\* a successful fetch_package_stats
FetchedStats ==
    [total |-> Some(2468), last_month |-> Some(1234),
     last_week |-> Some(7), last_day |-> Some(0)]

InitRender ==
    /\ pc = "call"
    /\ \E package \in {None, Some(""), Some("a")} :
          \E rows \in RenderRows(IF package = Some("") THEN None
                                  ELSE package) :
             \E env, summary, no_browser \in BOOLEAN :
                \E fetched \in {None, Some(FetchedStats)} :
                   args =
                     [package |-> package,
                      rows |-> rows,
                      all_history |-> RenderAllHistory(rows),
                      env_summary |->
                          IF summary
                          THEN Some([python_versions |->
                                         <<[name |-> "3", value |-> 1]>>,
                                     os_distribution |-> <<>>])
                          ELSE None,
                      fetched |-> fetched,
                      py_versions |->
                          IF env
                          THEN Some(<<[category |-> "3", downloads |-> 1]>>)
                          ELSE None,
                      os_stats |->
                          IF env
                          THEN Some(<<[category |-> "null", downloads |-> 1]>>)
                          ELSE None,
                      no_browser |-> no_browser]
    /\ ret = NoReturn

CallExportCsv ==
    /\ pc = "call"
    /\ args.package = None
    /\ ret' = [renderer |-> "export_csv", out |-> export_csv(args.rows)]
    /\ pc' = "done"
    /\ UNCHANGED args

CallExportJson ==
    /\ pc = "call"
    /\ args.package = None
    /\ ret' = [renderer |-> "export_json", out |-> export_json(args.rows)]
    /\ pc' = "done"
    /\ UNCHANGED args

CallExportMarkdown ==
    /\ pc = "call"
    /\ args.package = None
    /\ ret' = [renderer |-> "export_markdown",
               out |-> export_markdown(args.rows)]
    /\ pc' = "done"
    /\ UNCHANGED args

CallGenerateHtmlReport ==
    /\ pc = "call"
    /\ args.package = None
    /\ ret' = [renderer |-> "generate_html_report",
               out |-> generate_html_report(args.rows, args.all_history,
                                            args.env_summary)]
    /\ pc' = "done"
    /\ UNCHANGED args

CallCmdReport ==
    /\ pc = "call"
    /\ ret' = [renderer |-> "cmd_report", out |-> cmd_report(args)]
    /\ pc' = "done"
    /\ UNCHANGED args

NextRender ==
    \/ CallExportCsv
    \/ CallExportJson
    \/ CallExportMarkdown
    \/ CallGenerateHtmlReport
    \/ CallCmdReport

SpecRender == InitRender /\ [][NextRender]_vars

\* the report command was given a package name that counts as one
SinglePackage == args.package \notin {None, Some("")}

NumericFields == {"total", "last_month", "last_week", "last_day"}

\* a list renderer shows one line per row, and zero where the field is null
NullsShownAs(rows, lines, zero) ==
    /\ Len(lines) = Len(rows)
    /\ \A i \in 1..Len(rows) : \A f \in NumericFields :
          rows[i][f] = None => lines[i][f] = zero

\* the bar of every entity with a null metric has value 0
NullBarsAreZero(rows, chart, f) ==
    /\ chart.kind = "svg"
    /\ Len(chart.bars) = Len(rows)
    /\ \A i \in 1..Len(rows) :
          rows[i][f] = None =>
             \E k \in 1..Len(rows) :
                /\ chart.bars[k].name = rows[i].package_name
                /\ chart.bars[k].value = 0

\* the aggregate report is written with zero for every null field
AggregateShowsNullsAsZero(rows, out) ==
    /\ out.kind = "returned"
    /\ out.file # None
    /\ NullsShownAs(rows, out.file[1].table_rows, <<"0">>)
    /\ NullBarsAreZero(rows, out.file[1].totals_chart, "total")
    /\ NullBarsAreZero(rows, out.file[1].month_chart, "last_month")
    /\ NullBarsAreZero(rows, out.file[1].day_chart, "last_day")

\* the single-entity report is written, its cards showing zero for every
\* null field of the newest stored row
PackageReportShowsNullsAsZero(rows, out) ==
    /\ out.kind = "returned"
    /\ out.file # None
    /\ \A f \in NumericFields :
          rows[1][f] = None => out.file[1].cards[f] = <<"0">>

\* C18: a stored row with a null numeric field is rendered with 0 in its
\* place, and rendering never raises, in the CSV, JSON and Markdown
\* exports, in the aggregate report and in the single-entity report the
\* report command builds from the stored history.
StoredNullsRenderAsZero ==
    pc = "done" =>
        CASE ret.renderer = "export_csv" ->
                 NullsShownAs(args.rows, ret.out, <<"0">>)
          [] ret.renderer = "export_json" ->
                 NullsShownAs(args.rows, ret.out, 0)
          [] ret.renderer = "export_markdown" ->
                 NullsShownAs(args.rows, ret.out, <<"0">>)
          [] ret.renderer = "generate_html_report" ->
                 args.rows # <<>> =>
                    AggregateShowsNullsAsZero(args.rows, ret.out)
          [] ret.renderer = "cmd_report" ->
                 args.rows # <<>> =>
                    IF ~SinglePackage
                    THEN AggregateShowsNullsAsZero(args.rows, ret.out)
                    ELSE PackageReportShowsNullsAsZero(args.rows, ret.out)

\* the exports and the aggregate report do render every null as 0
StoredNullsRenderAsZeroInLists ==
    (pc = "done" /\ ~(ret.renderer = "cmd_report" /\ SinglePackage))
        => StoredNullsRenderAsZero

\* the report command on a package whose newest row has a null total: the
\* generator raises TypeError and writes nothing
PackageReportNullWitness ==
    /\ pc = "done"
    /\ ret.renderer = "cmd_report"
    /\ args.package = Some("a")
    /\ Len(args.rows) = 1
    /\ args.rows[1].total = None
    /\ args.rows[1].last_month = Some(1234)
    /\ ret.out.kind = "raise"
    /\ ret.out.exc = Some("TypeError")
    /\ ret.out.file = None

\* a report generator has been called: directly, or by the report command
\* (which returns before the call only when no package, or the empty name,
\* is given and the store has no stats)
GeneratorCalled ==
    /\ pc = "done"
    /\ \/ ret.renderer = "generate_html_report"
       \/ /\ ret.renderer = "cmd_report"
          /\ SinglePackage \/ args.rows # <<>>

\* C19: every call of a report generator, aggregate or single-entity,
\* returns having written a document to the output file, also when the
\* stats list is empty or the fetch of the entity's stats fails.
ReportAlwaysWritten ==
    GeneratorCalled => ret.out.kind = "returned" /\ ret.out.file # None

\* the aggregate generator called with an empty stats list writes nothing
EmptyStatsWitness ==
    /\ pc = "done"
    /\ ret.renderer = "generate_html_report"
    /\ args.rows = <<>>
    /\ ret.out.kind = "returned"
    /\ ret.out.file = None

\* the single-entity generator whose fetch fails writes nothing
FailedFetchWitness ==
    /\ pc = "done"
    /\ ret.renderer = "cmd_report"
    /\ SinglePackage
    /\ args.rows = <<>>
    /\ args.fetched = None
    /\ ret.out.kind = "returned"
    /\ ret.out.file = None

MaxReportHist == 3

MaxEnvLen == 2

\* the history of package "a" as the store returns it, newest first; a
\* total is NULL or a count
ReportHistories ==
    UNION {{[i \in 1..n |->
               StoredRow("a", n + 1 - i, tot[i], Some(0), Some(0), Some(0))] :
            tot \in [1..n -> {None, Some(1234)}]} : n \in 0..MaxReportHist}

\* what fetch_python_versions and fetch_os_stats return: None, or a list of
\* categories, among them the "null" category and the empty name
EnvLists ==
    {None} \cup
    {Some(l) : l \in SeqsUpTo([category : {"3", "null", ""},
                               downloads : {1}], MaxEnvLen)}

InitPackageReport ==
    /\ pc = "call"
    /\ args \in [stats : {None, Some(FetchedStats)},
                 fetched : {None, Some(FetchedStats)},
                 history : ReportHistories,
                 py_versions : EnvLists,
                 os_stats : EnvLists]
    /\ ret = NoReturn

CallGeneratePackageHtmlReport ==
    /\ pc = "call"
    /\ ret' = [renderer |-> "generate_package_html_report",
               out |-> generate_package_html_report(
                           args.stats, args.history, args.fetched,
                           args.py_versions, args.os_stats)]
    /\ pc' = "done"
    /\ UNCHANGED args

NextPackageReport == CallGeneratePackageHtmlReport

SpecPackageReport == InitPackageReport /\ [][NextPackageReport]_vars

\* the stats of the entity are at hand: passed in, or fetched
StatsAvailable == args.stats # None \/ args.fetched # None

\* the Python slot has nothing to show: its data is null, empty, or every
\* category is filtered out (empty name or "null")
PyDataMissing ==
    \/ args.py_versions = None
    \/ \A i \in 1..Len(args.py_versions[1]) :
          args.py_versions[1][i].category \in {"", "null"}

\* the OS slot has nothing to show: its data is null or empty
OsDataMissing == args.os_stats = None \/ args.os_stats[1] = <<>>

PyPlaceholder ==
    [kind |-> "placeholder", text |-> "Python version data not available"]

OsPlaceholder ==
    [kind |-> "placeholder", text |-> "OS data not available"]

\* C20: in the single-entity report each optional section degrades on its
\* own.  Whenever the entity's stats are at hand the report is written;
\* it has no history block exactly when the history is absent or has
\* fewer than 2 records; the Python slot shows its placeholder exactly
\* when its data is null, empty or entirely filtered out, and the OS slot
\* shows its placeholder exactly when its data is null or empty, each
\* whatever the state of the other slot and of the history.
SectionsDegradeIndependently ==
    (pc = "done" /\ StatsAvailable) =>
        /\ ret.out.kind = "returned"
        /\ ret.out.file # None
        /\ LET doc == ret.out.file[1]
           IN  /\ (doc.history_chart = EmptyDoc) <=> (Len(args.history) < 2)
               /\ Len(args.history) >= 2 =>
                     /\ doc.history_chart.kind = "svg"
                     /\ Len(doc.history_chart.polylines[1])
                            = Len(args.history)
               /\ (doc.py_slot = PyPlaceholder) <=> PyDataMissing
               /\ (doc.os_slot = OsPlaceholder) <=> OsDataMissing
               /\ ~PyDataMissing => doc.py_slot.kind = "svg"
               /\ ~OsDataMissing => doc.os_slot.kind = "svg"
               /\ doc.cards.total = <<"2", ",", "4", "6", "8">>

\* one record of history, Python data entirely filtered out, OS data
\* present: the report is written without a history block, with the
\* Python placeholder and with the OS chart
SectionsDegradeWitness ==
    /\ pc = "done"
    /\ StatsAvailable
    /\ Len(args.history) = 1
    /\ args.py_versions =
           Some(<<[category |-> "null", downloads |-> 1],
                  [category |-> "", downloads |-> 1]>>)
    /\ args.os_stats = Some(<<[category |-> "null", downloads |-> 1]>>)
    /\ ret.out.file # None
    /\ ret.out.file[1].history_chart = EmptyDoc
    /\ ret.out.file[1].py_slot = PyPlaceholder
    /\ ret.out.file[1].os_slot.kind = "svg"
    /\ ret.out.file[1].os_slot.slices[1].name = "Unknown"

\* no history and no Python data while the OS data is missing as well:
\* both placeholders, the cards still written
BothSlotsMissingWitness ==
    /\ pc = "done"
    /\ StatsAvailable
    /\ args.history = <<>>
    /\ args.py_versions = None
    /\ args.os_stats = Some(<<>>)
    /\ ret.out.file # None
    /\ ret.out.file[1].py_slot = PyPlaceholder
    /\ ret.out.file[1].os_slot = OsPlaceholder


\* the position in the stats list of the entity a bar is drawn for
BarPosition(rows, bar) ==
    CHOOSE i \in 1..Len(rows) : rows[i].package_name = bar.name

\* a bar chart ranks the entities: one bar per entity carrying the
\* entity's metric f (null as 0), larger values first, equal values in the
\* order of the stats list
ChartRanked(rows, chart, f) ==
    /\ chart.kind = "svg"
    /\ Len(chart.bars) = Len(rows)
    /\ \A k \in 1..Len(rows) :
          /\ \E i \in 1..Len(rows) : rows[i].package_name = chart.bars[k].name
          /\ chart.bars[k].value
                = OrZero(rows[BarPosition(rows, chart.bars[k])][f])
    /\ \A k, l \in 1..Len(rows) :
          k < l =>
             \/ chart.bars[k].value > chart.bars[l].value
             \/ /\ chart.bars[k].value = chart.bars[l].value
                /\ BarPosition(rows, chart.bars[k])
                      < BarPosition(rows, chart.bars[l])

\* the aggregate generator wrote a report for a non-empty stats list
AggregateWritten ==
    /\ pc = "done"
    /\ ret.renderer = "generate_html_report"
    /\ args.rows # <<>>
    /\ ret.out.file # None

\* C21: in the aggregate report each of the three bar charts (total, last
\* month, last day) lists the entities by that chart's own metric
\* descending, ties in input order, for any stats list; the table rank of
\* an entity is its 1-based position in the stats list.
AggregateChartsRanked ==
    AggregateWritten =>
        /\ ChartRanked(args.rows, ret.out.file[1].totals_chart, "total")
        /\ ChartRanked(args.rows, ret.out.file[1].month_chart, "last_month")
        /\ ChartRanked(args.rows, ret.out.file[1].day_chart, "last_day")
        /\ \A i \in 1..Len(args.rows) :
              /\ ret.out.file[1].table_rows[i].rank = i
              /\ ret.out.file[1].table_rows[i].package_name
                    = args.rows[i].package_name

\* the month chart, the day chart and the table are as claimed
MonthAndDayChartsRanked ==
    AggregateWritten =>
        /\ ChartRanked(args.rows, ret.out.file[1].month_chart, "last_month")
        /\ ChartRanked(args.rows, ret.out.file[1].day_chart, "last_day")
        /\ \A i \in 1..Len(args.rows) :
              /\ ret.out.file[1].table_rows[i].rank = i
              /\ ret.out.file[1].table_rows[i].package_name
                    = args.rows[i].package_name

\* a stats list not ordered by total: the totals chart keeps the input
\* order, the smaller total first
TotalsChartUnsortedWitness ==
    /\ AggregateWritten
    /\ Len(args.rows) = 2
    /\ args.rows[1].total = Some(0)
    /\ args.rows[2].total = Some(1234)
    /\ ret.out.file[1].totals_chart.bars[1].name = "a"
    /\ ret.out.file[1].totals_chart.bars[1].value = 0
    /\ ret.out.file[1].totals_chart.bars[2].value = 1234


(***************************************************************************)
(* pkglog.store_stats, pkglog.get_latest_stats; cmd_fetch and cmd_update   *)
(* of pkgdb (cli.py, with api.fetch_package_stats) and of pkglog           *)
(*                                                                         *)
(* In this specification ret is the store: the rows of package_stats in    *)
(* rowid order, the next AUTOINCREMENT id, and in result what the last     *)
(* query returned; args holds today's date, the inputs of the last call    *)
(* of store_stats and the fetch or update command under way: its program,  *)
(* its list of packages, what the stats source did so far, and how it      *)
(* ended; pc names the last step.  A command takes one step per package,   *)
(* between which the date can change and other connections can read.       *)
(***************************************************************************)
store_stats_append(store, package_name, stats, today) ==
    [rows |-> Append(store.rows,
                     [id |-> store.next_id]
                         @@ StoredRow(package_name, today, stats.total,
                                      stats.last_month, stats.last_week,
                                      stats.last_day)),
     next_id |-> store.next_id + 1,
     result |-> None]

\* INSERT OR REPLACE under UNIQUE(package_name, fetch_date): the row of the
\* pair, if any, is deleted and the new row is inserted with a fresh id
store_stats(store, package_name, stats, today) ==
    LET OtherPair(r) ==
            ~(r.package_name = package_name /\ r.fetch_date = today)
    IN  [rows |-> Append(SelectSeq(store.rows, OtherPair),
                         [id |-> store.next_id]
                             @@ StoredRow(package_name, today, stats.total,
                                          stats.last_month, stats.last_week,
                                          stats.last_day)),
         next_id |-> store.next_id + 1,
         result |-> None]

\* the place of a total under ORDER BY total DESC: NULL sorts below every
\* number
TotalKey(r) == IF r.total = None THEN -1 ELSE r.total[1]

get_latest_stats_oldest(rows) ==
    LET oldest == {r \in {rows[i] : i \in 1..Len(rows)} :
                     \A i \in 1..Len(rows) :
                        rows[i].package_name = r.package_name
                           => rows[i].fetch_date >= r.fetch_date}
        n == Cardinality(oldest)
    IN  {s \in [1..n -> oldest] :
            /\ \A i, j \in 1..n : i # j => s[i] # s[j]
            /\ \A i, j \in 1..n : i < j => TotalKey(s[i]) >= TotalKey(s[j])}

\* the lists the query can return: the rows joined with each package's
\* MAX(fetch_date), ORDER BY total DESC; SQL leaves the order of rows with
\* equal totals open, so every such order is a possible result
get_latest_stats(rows) ==
    LET latest == {r \in {rows[i] : i \in 1..Len(rows)} :
                     \A i \in 1..Len(rows) :
                        rows[i].package_name = r.package_name
                           => rows[i].fetch_date <= r.fetch_date}
        n == Cardinality(latest)
    IN  {s \in [1..n -> latest] :
            /\ \A i, j \in 1..n : i # j => s[i] # s[j]
            /\ \A i, j \in 1..n : i < j => TotalKey(s[i]) >= TotalKey(s[j])}

\* the exception classes api.fetch_package_stats catches
API_ERRORS ==
    {"JSONDecodeError", "URLError", "ValueError", "KeyError", "TypeError",
     "OSError"}

\* response is what the stats source did: [kind |-> "ok", stats], the
\* fields of stats being None where the answer holds null, or
\* [kind |-> "error", exc, classes], classes being the names of the classes
\* the exception is an instance of (`except` matches subclasses).  An
\* instance of a class of _API_ERRORS is logged and gives None; any other
\* exception leaves the function.  The result is
\* [kind |-> "returned", value] or [kind |-> "raise", exc].
fetch_package_stats(response) ==
    IF response.kind = "error"
    THEN IF response.classes \cap API_ERRORS # {}
         THEN [kind |-> "returned", value |-> None, exc |-> ""]
         ELSE [kind |-> "raise", value |-> None, exc |-> response.exc]
    ELSE [kind |-> "returned", value |-> Some(response.stats), exc |-> ""]

\* pkglog.fetch_package_stats catches every instance of Exception
pkglog_fetch_package_stats(response) ==
    IF response.kind = "error"
    THEN IF "Exception" \in response.classes
         THEN [kind |-> "returned", value |-> None, exc |-> ""]
         ELSE [kind |-> "raise", value |-> None, exc |-> response.exc]
    ELSE [kind |-> "returned", value |-> Some(response.stats), exc |-> ""]

\* one turn of the loop of cmd_fetch, of pkgdb or of pkglog: the fetch,
\* the store when stats were returned, and the progress line, whose `:,`
\* format raises TypeError on a field that is None, after the store.
\* The result is the store and the exception that leaves the command.
cmd_fetch_iteration(store, program, package, response, today) ==
    LET fetched == IF program = "pkglog"
                   THEN pkglog_fetch_package_stats(response)
                   ELSE fetch_package_stats(response)
    IN  IF fetched.kind = "raise"
        THEN [store |-> store, exc |-> Some(fetched.exc)]
        ELSE IF fetched.value = None THEN [store |-> store, exc |-> None]
        ELSE LET stats == fetched.value[1]
             IN  [store |-> store_stats(store, package, stats, today),
                  exc |-> IF None \in {stats.total, stats.last_month,
                                       stats.last_week, stats.last_day}
                          THEN Some("TypeError") ELSE None]

MaxStoreDay == 2
MaxStoreId == 3

\* a stats mapping given to store_stats: stats.get() of a missing key is
\* None
StoreStatsOf(total) ==
    [total |-> total, last_month |-> Some(7), last_week |-> Some(7),
     last_day |-> Some(0)]

\* what the stats source can do for one package: an answer, with a count
\* or null as total, unparsable JSON, an HTTP error of urllib, a connection
\* reset by the peer, an exception of another kind, or an interrupt from
\* the keyboard, which is no Exception
FetchResponses ==
    {[kind |-> "ok", stats |-> StoreStatsOf(t), exc |-> "", classes |-> {}] :
        t \in {None, Some(0), Some(1234)}}
    \cup {[kind |-> "error", stats |-> None, exc |-> e[1],
           classes |-> {e[1], "BaseException"} \cup e[2]] :
             e \in {<<"JSONDecodeError", {"ValueError", "Exception"}>>,
                    <<"HTTPError", {"URLError", "OSError", "Exception"}>>,
                    <<"ConnectionResetError",
                      {"ConnectionError", "OSError", "Exception"}>>,
                    <<"Exception", {}>>,
                    <<"KeyboardInterrupt", {}>>}}

\* no call of store_stats to record, no fetch or update command under way
NoCall ==
    [package_name |-> "", stats |-> None, program |-> "", command |-> "",
     packages |-> <<>>, responses |-> <<>>, status |-> "idle", exc |-> ""]

\* the fields of a command that has not ended are kept by the steps of
\* other connections
Command(a) ==
    IF a.status \in {"running", "reporting"}
    THEN [NoCall EXCEPT !.program = a.program, !.command = a.command,
                        !.packages = a.packages,
                        !.responses = a.responses, !.status = a.status]
    ELSE NoCall

InitStore ==
    /\ pc = "init_db"
    /\ args = [today |-> 1] @@ NoCall
    /\ ret = [rows |-> <<>>, next_id |-> 1, result |-> None]

\* a call of store_stats by any connection: between commands, or while a
\* command waits for the stats source or is about to read for its report
StoreStats ==
    /\ ret.next_id <= MaxStoreId
    /\ \E package_name \in {"a", "b"} :
          \E total \in {None, Some(0), Some(1234)} :
             /\ args' = [today |-> args.today]
                           @@ [Command(args) EXCEPT
                                  !.package_name = package_name,
                                  !.stats = Some(StoreStatsOf(total))]
             /\ ret' = store_stats(ret, package_name, StoreStatsOf(total),
                                   args.today)
    /\ pc' = "store_stats"

\* datetime.now() moves to the next date
NextDay ==
    /\ args.today < MaxStoreDay
    /\ args' = [today |-> args.today + 1] @@ Command(args)
    /\ ret' = [ret EXCEPT !.result = None]
    /\ pc' = "next_day"

CallGetLatestStats ==
    /\ pc # "get_latest_stats"
    /\ \E s \in get_latest_stats(ret.rows) :
          ret' = [ret EXCEPT !.result = s]
    /\ args' = [today |-> args.today] @@ Command(args)
    /\ pc' = "get_latest_stats"

\* cmd_fetch or cmd_update of pkgdb or of pkglog begins: packages is the
\* list of tracked packages.  When the loop is over cmd_fetch returns and
\* cmd_update goes on with cmd_report.  One command is followed at a time;
\* what a second command running beside it does to the store are the steps
\* StoreStats and CallGetLatestStats.
CmdFetch ==
    /\ args.status \notin {"running", "reporting"}
    /\ \E program \in {"pkgdb", "pkglog"} :
          \E command \in {"fetch", "update"} :
             \E packages \in {<<>>, <<"a">>, <<"a", "b">>, <<"b", "a">>} :
                args' = [today |-> args.today]
                           @@ [NoCall EXCEPT
                                  !.program = program,
                                  !.command = command,
                                  !.packages = packages,
                                  !.status =
                                      IF packages # <<>> THEN "running"
                                      ELSE IF command = "update"
                                      THEN "reporting"
                                      ELSE "returned"]
    /\ ret' = [ret EXCEPT !.result = None]
    /\ pc' = "cmd_fetch"

\* one turn of the loop: the wait for the stats source ends, the store is
\* committed with the date of that moment
CmdFetchPackage ==
    /\ args.status = "running"
    /\ ret.next_id <= MaxStoreId
    /\ \E response \in FetchResponses :
          LET package == args.packages[Len(args.responses) + 1]
              responses == Append(args.responses, response)
              out == cmd_fetch_iteration(ret, args.program, package,
                                         response, args.today)
          IN  /\ ret' = [out.store EXCEPT !.result = None]
              /\ args' = [args EXCEPT
                             !.package_name = "",
                             !.stats = None,
                             !.responses = responses,
                             !.status =
                                 IF out.exc # None THEN "raise"
                                 ELSE IF Len(responses) < Len(args.packages)
                                 THEN "running"
                                 ELSE IF args.command = "update"
                                 THEN "reporting"
                                 ELSE "returned",
                             !.exc = IF out.exc # None THEN out.exc[1]
                                     ELSE ""]
    /\ pc' = "cmd_fetch_package"

\* cmd_report of cmd_update reads the latest stats
CmdReport ==
    /\ args.status = "reporting"
    /\ \E s \in get_latest_stats(ret.rows) :
          ret' = [ret EXCEPT !.result = s]
    /\ args' = [args EXCEPT !.package_name = "", !.stats = None,
                            !.status = "returned"]
    /\ pc' = "cmd_report"

NextStore ==
    \/ StoreStats
    \/ NextDay
    \/ CallGetLatestStats

\* the store under calls of store_stats and get_latest_stats
SpecStore == InitStore /\ [][NextStore]_vars

\* the store under the commands as well
SpecFetch ==
    InitStore /\ [][NextStore \/ CmdFetch \/ CmdFetchPackage \/ CmdReport]_vars


RowsOfPair(rows, package_name, date) ==
    LET ThePair(r) == r.package_name = package_name /\ r.fetch_date = date
    IN  SelectSeq(rows, ThePair)

RowsOfOtherPairs(rows, package_name, date) ==
    LET Other(r) == ~(r.package_name = package_name /\ r.fetch_date = date)
    IN  SelectSeq(rows, Other)

HoldsValues(r, stats) ==
    /\ r.total = stats.total
    /\ r.last_month = stats.last_month
    /\ r.last_week = stats.last_week
    /\ r.last_day = stats.last_day

\* C22: after any sequence of store_stats calls the store holds at most one
\* row per (package_name, fetch_date); a store_stats call leaves exactly one
\* row of its pair, holding the new values, and leaves the rows of every
\* other pair as they were.
StoreKeepsOneRowPerPair ==
    /\ [](\A i, j \in 1..Len(ret.rows) :
             (/\ ret.rows[i].package_name = ret.rows[j].package_name
              /\ ret.rows[i].fetch_date = ret.rows[j].fetch_date) => i = j)
    /\ [][pc' = "store_stats" =>
            LET p == args'.package_name
                d == args'.today
                now == RowsOfPair(ret'.rows, p, d)
            IN  /\ Len(now) = 1
                /\ HoldsValues(now[1], args'.stats[1])
                /\ RowsOfOtherPairs(ret'.rows, p, d)
                      = RowsOfOtherPairs(ret.rows, p, d)]_vars

\* a second store of ("a", day 1) replaced row 2 while row 1 of ("b", day 1)
\* stayed
StoreReplacedWitness ==
    /\ pc = "store_stats"
    /\ args.today = 1
    /\ args.package_name = "a"
    /\ Len(ret.rows) = 2
    /\ ret.rows[1].id = 1
    /\ ret.rows[1].package_name = "b"
    /\ ret.rows[2].id = 3
    /\ ret.rows[2].package_name = "a"
    /\ ret.rows[2].total = Some(1234)

\* C23: get_latest_stats returns exactly one row per package that has a
\* row, namely the package's row with the greatest fetch_date, ordered by
\* total descending; on an empty store it returns the empty list.
LatestStatsPerPackage ==
    pc = "get_latest_stats" =>
        LET rows == ret.rows
            result == ret.result
        IN  /\ \A i \in 1..Len(rows) :
                  \E k \in 1..Len(result) :
                     /\ result[k].package_name = rows[i].package_name
                     /\ result[k].fetch_date >= rows[i].fetch_date
            /\ \A k \in 1..Len(result) :
                  /\ \E i \in 1..Len(rows) : rows[i] = result[k]
                  /\ \A j \in 1..Len(result) :
                        result[j].package_name = result[k].package_name
                           => j = k
            /\ \A j, k \in 1..Len(result) :
                  j < k =>
                     \/ result[k].total = None
                     \/ /\ result[j].total # None
                        /\ result[j].total[1] >= result[k].total[1]
            /\ (rows = <<>> => result = <<>>)

\* "a" has an older row with the larger total and a newer one with the
\* smaller: the newer is returned, below the row of "b"
LatestStatsWitness ==
    /\ pc = "get_latest_stats"
    /\ Len(ret.rows) = 3
    /\ Len(ret.result) = 2
    /\ ret.result[1].package_name = "b"
    /\ ret.result[1].total = Some(1234)
    /\ ret.result[2].package_name = "a"
    /\ ret.result[2].total = Some(0)
    /\ ret.result[2].fetch_date = 2
    /\ \E i \in 1..3 :
          /\ ret.rows[i].package_name = "a"
          /\ ret.rows[i].fetch_date = 1
          /\ ret.rows[i].total = Some(1234)

LatestStatsEmptyWitness ==
    pc = "get_latest_stats" /\ ret.rows = <<>> /\ ret.result = <<>>

\* the state right after the last turn of a fetch loop
FetchEnded ==
    /\ pc = "cmd_fetch_package"
    /\ args.status \in {"reporting", "returned", "raise"}

FetchFailed(response) == response.kind = "error"

\* C24: in the fetch command a failed fetch yields null and leaves the
\* store as it is, and the run goes on: every package of the list is
\* fetched, and after the command the store holds today's row, with the
\* fetched values, for the packages whose fetch succeeded.
FetchSkipsFailures ==
    /\ [][(pc' = "cmd_fetch_package"
             /\ FetchFailed(args'.responses[Len(args'.responses)]))
          => (ret'.rows = ret.rows /\ args'.status # "raise")]_vars
    /\ [](FetchEnded =>
            /\ args.status # "raise"
            /\ Len(args.responses) = Len(args.packages)
            /\ \A i \in 1..Len(args.responses) :
                  ~FetchFailed(args.responses[i]) =>
                     LET now == RowsOfPair(ret.rows, args.packages[i],
                                           args.today)
                     IN  /\ Len(now) = 1
                         /\ HoldsValues(now[1], args.responses[i].stats))

\* the failure is one that the program's fetch_package_stats catches
FetchCaught(program, response) ==
    IF program = "pkglog" THEN "Exception" \in response.classes
    ELSE response.classes \cap API_ERRORS # {}

HasNullField(stats) ==
    None \in {stats.total, stats.last_month, stats.last_week,
              stats.last_day}

\* a failure that the fetch catches leaves the store as it is and the run
\* goes on; a fetched answer is stored under the date of that moment and
\* leaves the rows of other pairs as they are; the command ends early
\* only by an exception the fetch does not catch or by a null field in a
\* fetched answer
FetchSkipsCaughtFailures ==
    /\ [][pc' = "cmd_fetch_package" =>
            LET response == args'.responses[Len(args'.responses)]
                package == args'.packages[Len(args'.responses)]
                now == RowsOfPair(ret'.rows, package, args'.today)
            IN  IF FetchFailed(response)
                THEN /\ ret'.rows = ret.rows
                     /\ args'.status = "raise"
                           <=> ~FetchCaught(args'.program, response)
                ELSE /\ Len(now) = 1
                     /\ HoldsValues(now[1], response.stats)
                     /\ RowsOfOtherPairs(ret'.rows, package, args'.today)
                           = RowsOfOtherPairs(ret.rows, package, args.today)
                     /\ args'.status = "raise"
                           <=> HasNullField(response.stats)]_vars
    /\ [](FetchEnded /\ args.status # "raise"
             => Len(args.responses) = Len(args.packages))

\* the fetch of "a" raised an exception that is not an API error: the
\* command of pkgdb ended and "b" was never fetched
FetchUncaughtWitness ==
    /\ FetchEnded
    /\ args.program = "pkgdb"
    /\ args.packages = <<"a", "b">>
    /\ Len(args.responses) = 1
    /\ args.responses[1].exc = "Exception"
    /\ args.status = "raise"
    /\ args.exc = "Exception"

\* the answer for "a" held null as total: the row was stored, the progress
\* line raised TypeError and "b" was never fetched
FetchNullFieldWitness ==
    /\ FetchEnded
    /\ args.packages = <<"a", "b">>
    /\ Len(args.responses) = 1
    /\ args.responses[1].kind = "ok"
    /\ args.responses[1].stats.total = None
    /\ args.status = "raise"
    /\ args.exc = "TypeError"
    /\ Len(RowsOfPair(ret.rows, "a", args.today)) = 1

\* the date changed during the command: the row of "a" has the date of the
\* day before
FetchOverMidnightWitness ==
    /\ FetchEnded
    /\ args.status = "returned"
    /\ args.packages = <<"a", "b">>
    /\ args.today = 2
    /\ Len(ret.rows) = 2
    /\ ret.rows[1].package_name = "a"
    /\ ret.rows[1].fetch_date = 1
    /\ ret.rows[2].package_name = "b"
    /\ ret.rows[2].fetch_date = 2

\* the first fetch failed with an HTTP error, which is caught, and the
\* second was stored
FetchAfterFailureWitness ==
    /\ FetchEnded
    /\ args.program = "pkgdb"
    /\ args.status = "returned"
    /\ Len(args.responses) = 2
    /\ args.responses[1].exc = "HTTPError"
    /\ args.responses[2].kind = "ok"
    /\ Len(ret.rows) = 1
    /\ ret.rows[1].package_name = args.packages[2]
    /\ ret.rows[1].total = args.responses[2].stats.total

\* another connection stored "b" while the command waited for the answer
\* for "b": the command's store replaced that row
FetchInterleavedWitness ==
    /\ FetchEnded
    /\ args.status = "returned"
    /\ args.packages = <<"a", "b">>
    /\ ret.next_id = 4
    /\ Len(ret.rows) = 2
    /\ ret.rows[1].id = 1
    /\ ret.rows[1].package_name = "a"
    /\ ret.rows[2].id = 3
    /\ ret.rows[2].package_name = "b"
    /\ ret.rows[2].total = Some(1234)


(***************************************************************************)
(* badges.generate_downloads_badge                                         *)
(***************************************************************************)
BADGE_COLORS ==
    [green |-> "#4c1", brightgreen |-> "#44cc11", blue |-> "#007ec6",
     lightblue |-> "#5bc0de", orange |-> "#fe7d37", red |-> "#e05d44",
     yellow |-> "#dfb317", gray |-> "#9f9f9f"]

\* label and value are strings as sequences of characters; the width of a
\* text is int(len(text) * 7.15)
generate_badge_svg(label, value, color) ==
    LET label_width == (Len(label) * 715) \div 100 + 12
        value_width == (Len(value) * 715) \div 100 + 12
    IN  [label |-> label, value |-> value, color |-> color,
         label_color |-> "#555", height |-> 20,
         label_width |-> label_width, value_width |-> value_width,
         total_width |-> label_width + value_width,
         label_x |-> Rat(label_width, 2),
         value_x |-> RatAdd(RatInt(label_width), Rat(value_width, 2))]

generate_downloads_badge_shifted(count, period, color) ==
    LET downloads == <<"d", "o", "w", "n", "l", "o", "a", "d", "s">>
        label == CASE period = "month" ->
                         downloads \o <<"/", "m", "o", "n", "t", "h">>
                   [] period = "week" ->
                         downloads \o <<"/", "w", "e", "e", "k">>
                   [] period = "day" -> downloads \o <<"/", "d", "a", "y">>
                   [] OTHER -> downloads
    IN  generate_badge_svg(
            label, format_count(count),
            IF color # None THEN color[1]
            ELSE IF count > 1000000 THEN BADGE_COLORS.brightgreen
            ELSE IF count > 100000 THEN BADGE_COLORS.green
            ELSE IF count > 10000 THEN BADGE_COLORS.blue
            ELSE IF count > 1000 THEN BADGE_COLORS.lightblue
            ELSE BADGE_COLORS.gray)

\* the label of an unknown period is "downloads"; color is None or Some(c)
generate_downloads_badge(count, period, color) ==
    LET downloads == <<"d", "o", "w", "n", "l", "o", "a", "d", "s">>
        label == CASE period = "month" ->
                         downloads \o <<"/", "m", "o", "n", "t", "h">>
                   [] period = "week" ->
                         downloads \o <<"/", "w", "e", "e", "k">>
                   [] period = "day" -> downloads \o <<"/", "d", "a", "y">>
                   [] OTHER -> downloads
    IN  generate_badge_svg(
            label, format_count(count),
            IF color # None THEN color[1]
            ELSE IF count >= 1000000 THEN BADGE_COLORS.brightgreen
            ELSE IF count >= 100000 THEN BADGE_COLORS.green
            ELSE IF count >= 10000 THEN BADGE_COLORS.blue
            ELSE IF count >= 1000 THEN BADGE_COLORS.lightblue
            ELSE BADGE_COLORS.gray)

BadgeNear == 2

\* counts around every colour threshold, and 0
InitBadge ==
    /\ pc = "call"
    /\ \E t \in {1000, 10000, 100000, 1000000} :
          \E count \in {0} \cup ((t - BadgeNear)..(t + BadgeNear)) :
             \E period \in {"total", "month", "week", "day", "year"} :
                \E color \in {None, Some(""), Some(BADGE_COLORS.red),
                              Some(BADGE_COLORS.gray)} :
                   args = [count |-> count, period |-> period,
                           color |-> color]
    /\ ret = NoReturn

CallGenerateDownloadsBadge ==
    /\ pc = "call"
    /\ ret' = generate_downloads_badge(args.count, args.period, args.color)
    /\ pc' = "done"
    /\ UNCHANGED args

SpecBadge == InitBadge /\ [][CallGenerateDownloadsBadge]_vars


BadgeTier(count) ==
    IF count >= 1000000 THEN 4
    ELSE IF count >= 100000 THEN 3
    ELSE IF count >= 10000 THEN 2
    ELSE IF count >= 1000 THEN 1
    ELSE 0

BadgeTierColor ==
    <<BADGE_COLORS.gray, BADGE_COLORS.lightblue, BADGE_COLORS.blue,
      BADGE_COLORS.green, BADGE_COLORS.brightgreen>>

\* C25: without an explicit colour the value side of the downloads badge
\* has the colour of the count's tier (brightest from 1,000,000, then from
\* 100,000, from 10,000, from 1,000, neutral gray below), the five colours
\* being different so that each count is in exactly one tier; an explicit
\* colour is used unchanged whatever the count.
BadgeColorByTier ==
    /\ \A i, j \in 1..5 : BadgeTierColor[i] = BadgeTierColor[j] => i = j
    /\ pc = "done" =>
          IF args.color = None
          THEN ret.color = BadgeTierColor[BadgeTier(args.count) + 1]
          ELSE ret.color = args.color[1]

BadgeThresholdWitness ==
    /\ pc = "done"
    /\ args.color = None
    /\ args.count = 100000
    /\ ret.color = "#4c1"

BadgeBelowThresholdWitness ==
    /\ pc = "done"
    /\ args.color = None
    /\ args.count = 99999
    /\ ret.color = "#007ec6"

BadgeExplicitColorWitness ==
    /\ pc = "done"
    /\ args.color = Some("#e05d44")
    /\ args.count = 1000000
    /\ ret.color = "#e05d44"


(***************************************************************************)
(* api.aggregate_env_stats                                                 *)
(*                                                                         *)
(* A dict is the sequence of its items [name, value] in insertion order.   *)
(***************************************************************************)
DictPut(totals, name, n) ==
    IF \E i \in 1..Len(totals) : totals[i].name = name
    THEN [i \in 1..Len(totals) |->
             IF totals[i].name = name THEN [name |-> name, value |-> n]
             ELSE totals[i]]
    ELSE Append(totals, [name |-> name, value |-> n])

\* totals[name] = totals.get(name, 0) + n
DictAdd(totals, name, n) ==
    IF \E i \in 1..Len(totals) : totals[i].name = name
    THEN [i \in 1..Len(totals) |->
             IF totals[i].name = name
             THEN [name |-> name, value |-> totals[i].value + n]
             ELSE totals[i]]
    ELSE Append(totals, [name |-> name, value |-> n])

\* the loop over py_data: an empty category and "null" are skipped
RECURSIVE MergePy(_, _)
MergePy(py_totals, py_data) ==
    IF py_data = <<>> THEN py_totals
    ELSE LET version == py_data[1].category
         IN  MergePy(IF version # "" /\ version # "null"
                     THEN DictAdd(py_totals, version, py_data[1].downloads)
                     ELSE py_totals,
                     Tail(py_data))

\* the loop over os_data: "null" is counted as "Unknown"
RECURSIVE MergeOs(_, _)
MergeOs(os_totals, os_data) ==
    IF os_data = <<>> THEN os_totals
    ELSE LET os_name == IF os_data[1].category = "null" THEN "Unknown"
                        ELSE os_data[1].category
         IN  MergeOs(DictAdd(os_totals, os_name, os_data[1].downloads),
                     Tail(os_data))

\* the loop over as_completed(futures): completed is the list of the
\* (py_data, os_data) results in the order in which the fetches completed;
\* None and the empty list are both skipped
RECURSIVE MergeCompleted(_, _)
MergeCompleted(totals, completed) ==
    IF completed = <<>> THEN totals
    ELSE MergeCompleted(
             [py |-> MergePy(totals.py, completed[1].py),
              os |-> MergeOs(totals.os, completed[1].os)],
             Tail(completed))

\* fetched[i] is what fetch_python_versions and fetch_os_stats return for
\* packages[i]; order[k] is the position of the k-th fetch to complete
aggregate_env_stats(fetched, order) ==
    LET totals == MergeCompleted([py |-> <<>>, os |-> <<>>],
                                 [k \in 1..Len(order) |-> fetched[order[k]]])
    IN  [python_versions |-> SortedByValueDesc(totals.py),
         os_distribution |-> SortedByValueDesc(totals.os)]

MaxAggPackages == 2

\* the results of the two fetches of one package: a failed fetch (None),
\* an empty breakdown, categories shared with other packages, filtered and
\* renamed categories
AggFetched ==
    LET item(c, d) == [category |-> c, downloads |-> d]
    IN  [py : {None, <<item("3", 1)>>, <<item("2", 1)>>,
               <<item("3", 2), item("null", 1)>>,
               <<item("", 1), item("2", 1), item("2", 1)>>},
         os : {None, <<item("Linux", 1)>>, <<item("null", 1)>>,
               <<item("Linux", 2), item("Unknown", 1)>>}]

InitAggregate ==
    /\ pc = "call"
    /\ \E n \in 0..MaxAggPackages :
          \E fetched \in [1..n -> AggFetched] :
             args = [packages |-> SubSeq(MultiNames, 1, n),
                     fetched |-> fetched]
    /\ ret = NoReturn

\* the fetches run in a thread pool and complete in any order
CallAggregateEnvStats ==
    /\ pc = "call"
    /\ \E order \in {q \in [1..Len(args.packages) -> 1..Len(args.packages)] :
                        \A i, j \in 1..Len(q) : i # j => q[i] # q[j]} :
          ret' = [order |-> order]
                     @@ aggregate_env_stats(args.fetched, order)
    /\ pc' = "done"
    /\ UNCHANGED args

SpecAggregate == InitAggregate /\ [][CallAggregateEnvStats]_vars


AggOrders ==
    {q \in [1..Len(args.packages) -> 1..Len(args.packages)] :
        \A i, j \in 1..Len(q) : i # j => q[i] # q[j]}

AggReturned ==
    [python_versions |-> ret.python_versions,
     os_distribution |-> ret.os_distribution]

\* C26: for the same fetch results the two lists returned by
\* aggregate_env_stats are the same for every order in which the fetches
\* complete, categories with equal totals included.
AggregateOrderIndependent ==
    pc = "done" =>
        \A order \in AggOrders :
            aggregate_env_stats(args.fetched, order) = AggReturned

\* when no two categories of a list have equal totals, the lists are the
\* same for every completion order
AggregateOrderIndependentWithoutTies ==
    (/\ pc = "done"
     /\ \A f \in {"python_versions", "os_distribution"} :
           \A i, j \in 1..Len(ret[f]) :
              ret[f][i].value = ret[f][j].value => i = j)
        => \A order \in AggOrders :
              aggregate_env_stats(args.fetched, order) = AggReturned

\* "3" of package 1 and "2" of package 2 have one download each, and the
\* fetch of package 2 completed first
AggregateTieWitness ==
    /\ pc = "done"
    /\ Len(args.packages) = 2
    /\ ret.order = <<2, 1>>
    /\ ret.python_versions
          = <<[name |-> "2", value |-> 1], [name |-> "3", value |-> 1]>>
    /\ aggregate_env_stats(args.fetched, <<1, 2>>).python_versions
          = <<[name |-> "3", value |-> 1], [name |-> "2", value |-> 1]>>

\* the downloads a breakdown holds for a category
AggDownloads(breakdown, name) ==
    SumSeq([i \in 1..Len(breakdown) |->
               IF breakdown[i].category = name THEN breakdown[i].downloads
               ELSE 0])

\* the sum of a category over the breakdowns of all packages
AggSumOver(f, name) ==
    SumSeq([p \in 1..Len(args.packages) |->
               AggDownloads(args.fetched[p][f], name)])

AggNames(f) ==
    UNION {{args.fetched[p][f][i].category :
               i \in 1..Len(args.fetched[p][f])} :
              p \in 1..Len(args.packages)}

AggHasOneItemPer(list, names) ==
    /\ {list[i].name : i \in 1..Len(list)} = names
    /\ \A i, j \in 1..Len(list) : list[i].name = list[j].name => i = j

\* C27: for every completion order each category's total returned by
\* aggregate_env_stats is the sum of the category's downloads over the
\* breakdowns of all packages whose fetch succeeded (a Python version
\* category that is empty or "null" is left out, an operating system
\* category "null" is counted as "Unknown"); a failed fetch adds nothing.
AggregateTotalsAreSums ==
    pc = "done" =>
        /\ AggHasOneItemPer(ret.python_versions,
                            AggNames("py") \ {"", "null"})
        /\ \A i \in 1..Len(ret.python_versions) :
              ret.python_versions[i].value
                 = AggSumOver("py", ret.python_versions[i].name)
        /\ AggHasOneItemPer(ret.os_distribution,
                            {IF c = "null" THEN "Unknown" ELSE c :
                                c \in AggNames("os")})
        /\ \A i \in 1..Len(ret.os_distribution) :
              ret.os_distribution[i].value
                 = IF ret.os_distribution[i].name = "Unknown"
                   THEN AggSumOver("os", "Unknown")
                           + AggSumOver("os", "null")
                   ELSE AggSumOver("os", ret.os_distribution[i].name)

\* the Python version fetch of package 1 failed and its operating system
\* fetch did not; "2" is counted twice in package 2, whose fetch completed
\* first
AggregateSumWitness ==
    /\ pc = "done"
    /\ Len(args.packages) = 2
    /\ ret.order = <<2, 1>>
    /\ args.fetched[1].py = None
    /\ args.fetched[1].os # None
    /\ args.fetched[2].os # None
    /\ ret.python_versions = <<[name |-> "2", value |-> 2]>>
    /\ \E i \in 1..Len(ret.os_distribution) :
          /\ ret.os_distribution[i].name = "Unknown"
          /\ ret.os_distribution[i].value = 2


\* two directions in degrees name the same point of the circle
SamePointOnCircle(a, b) ==
    LET d == RatSub(b, a) IN d.den = 1 /\ d.num % 360 = 0

\* C28: every slice of the pie chart is a visible sector: the start point
\* and the end point of its arc are different points of the circle, for
\* every input with a positive total, a single nonzero item included.
PieSlicesAreSectors ==
    (pc = "done" /\ ret.kind = "svg") =>
        \A k \in 1..Len(ret.slices) :
            ~SamePointOnCircle(ret.slices[k].start_dir,
                               ret.slices[k].end_dir)

\* the arc of a slice starts and ends at the same point exactly when the
\* slice is the only one
PieSlicesAreSectorsUnlessAlone ==
    (pc = "done" /\ ret.kind = "svg") =>
        \A k \in 1..Len(ret.slices) :
            SamePointOnCircle(ret.slices[k].start_dir,
                              ret.slices[k].end_dir)
               <=> Len(ret.slices) = 1

PieWholeCircleWitness ==
    /\ pc = "done"
    /\ ret.kind = "svg"
    /\ Len(args.data) = 2
    /\ args.data[1].value = 0
    /\ args.data[2].value = 2
    /\ Len(ret.slices) = 1
    /\ ret.slices[1].start_dir = RatInt(-90)
    /\ ret.slices[1].end_dir = RatInt(270)


ReportCommandRan == pc = "done" /\ ret.renderer = "cmd_report"

\* C29: the report command opens the output file in the browser only if a
\* report was written to the file in the same run; when the generator
\* returns without writing (no stats in the store, or no stats of the
\* single package and a failed fetch) no browser tab is opened.
BrowserOnlyAfterReport ==
    ReportCommandRan => (ret.out.browser => ret.out.file # None)

\* without a package argument, or with an empty one, the browser is opened
\* only after a report was written
AggregateBrowserOnlyAfterReport ==
    (ReportCommandRan /\ ~SinglePackage) =>
        (ret.out.browser => ret.out.file # None)

\* the package has no stored stats and the fetch failed: nothing is
\* written and the browser is opened
BrowserWithoutReportWitness ==
    /\ ReportCommandRan
    /\ SinglePackage
    /\ args.rows = <<>>
    /\ args.fetched = None
    /\ ~args.no_browser
    /\ ret.out.kind = "returned"
    /\ ret.out.file = None
    /\ ret.out.browser

\* C30: for every count from 1000 on the number printed by _format_count
\* before the suffix is below 1000: no "1000.0K" or "1000.0M" just under
\* 1e6 or 1e9.
FormatCountBelowThousand ==
    (pc = "done" /\ args.count >= 1000) => ShownTenths(ret) < 10000

\* the number printed is 1000.0 at most, and is 1000.0 only within 50 below
\* 1e6 and within 50,000 below 1e9
FormatCountThousandOnlyNearThreshold ==
    (pc = "done" /\ args.count >= 1000) =>
        /\ ShownTenths(ret) <= 10000
        /\ ShownTenths(ret) = 10000 =>
              \/ args.count \in 999950..999999
              \/ args.count \in 999950000..999999999

FormatCountThousandKWitness ==
    /\ pc = "done"
    /\ args.count = 999999
    /\ ret = <<"1", "0", "0", "0", ".", "0", "K">>

FormatCountThousandMWitness ==
    /\ pc = "done"
    /\ args.count = 999999999
    /\ ret = <<"1", "0", "0", "0", ".", "0", "M">>

====
